---- MODULE Spec2Model ----
(***************************************************************************)
(* State-machine model of ammo.msm._msm (classes MSM and MSMCollection).   *)
(*                                                                         *)
(* Conventions                                                             *)
(*   - microstate (cluster) indices are the 0-based integers of the code;  *)
(*     a numpy array / python list is a TLA+ sequence, so the entry at     *)
(*     0-based index m is element m+1 of the sequence.                     *)
(*   - feature space is one-dimensional with integer coordinates, so the   *)
(*     Euclidean norm of a center is its absolute value; means are kept    *)
(*     as exact fractions <<numerator, denominator>>.                      *)
(*   - a numpy mean over an empty slice is NaN; NaN is modelled by the     *)
(*     tagged value NaN below, with numpy's argsort / argmin / max rules.  *)
(*   - probabilities and passage times are small positive integers.       *)
(*   - the pyemma estimator (bayesian_markov_model, pcca, sample_f) is an  *)
(*     external library: its outputs are drawn nondeterministically from   *)
(*     the values its contract allows.                                     *)
(***************************************************************************)
EXTENDS Integers, Sequences, FiniteSets, TLC

VARIABLES data, cluster_centers, dtrajs, msm, stationary_distribution, pcca,
          metastable_assignments, mfpt, mfpr, last,
          bootstrapping_data, metastable_assignments_bootstrapped, boot, unfit,
          ratios, MSMs, clusters, file, loaded, state_labels,
          trajectory_data, traj_locations, missing_idx

\* the state of the bootstrapping operations; unfit is the environment's
\* part of it: the <<column, window length>> pairs whose histogram
\* scipy.optimize.curve_fit cannot fit (it raises RuntimeError for them)
\* the state of the MSM collection, the labels of the macrostates and the
\* value returned by the latest compare_states_and_timescales
collVars == <<ratios, MSMs, clusters, file, loaded, state_labels>>

\* what load_data leaves besides the number of loaded trajectories (data):
\* trajectory_data is the list self.data itself, every matrix given by the
\* snapshot folder, the files and the number of frames it was read from;
\* traj_locations is self.__traj_locations; missing_idx is the list of
\* snapshot folders the latest call printed under 'Missing data:'
loadVars == <<trajectory_data, traj_locations, missing_idx>>

extraVars == <<bootstrapping_data, metastable_assignments_bootstrapped, boot, unfit, loadVars,
              collVars>>

vars == <<data, cluster_centers, dtrajs, msm, stationary_distribution, pcca,
          metastable_assignments, mfpt, mfpr, last, extraVars>>

(***************************************************************************)
(* Bounds and input sets                                                   *)
(***************************************************************************)
\* largest number of cluster centers (microstates) K
MaxK == 3
\* largest n_states passed to the PCCA / kinetics operations
MaxStates == 3

\* the titles of the MSMs; one of them has more than one character
Titles == {"a", "ab"}
\* coordinates a cluster center can take (0 is the origin)
Coords == {0, 1, 2}
NStates == 2..MaxStates
\* numbers of trajectory replicates a load can find
TrajCounts == {2}
\* the estimator's stationary probabilities over the active set are
\* p, p+1, p+2, ... for a p drawn from PiBases
PiBases == {1, 2}

(***************************************************************************)
(* Generic helpers                                                         *)
(***************************************************************************)
Range(s) == {s[i] : i \in DOMAIN s}

MaxOf(S) == CHOOSE x \in S : \A y \in S : y <= x

MinOf(S) == CHOOSE x \in S : \A y \in S : x <= y

\* the elements of a finite set of integers in ascending order (numpy sort)
SortedSeq(S) ==
    [i \in 1..Cardinality(S) |-> CHOOSE x \in S : Cardinality({y \in S : y < x}) = i - 1]

\* all orderings of the elements of S
Orderings(S) == {s \in [1..Cardinality(S) -> S] : Range(s) = S}

RECURSIVE SumSeq(_)
SumSeq(s) == IF s = <<>> THEN 0 ELSE Head(s) + SumSeq(Tail(s))

Abs(x) == IF x < 0 THEN -x ELSE x

(***************************************************************************)
(* MSM.load_data: the trajectories a call loads                            *)
(***************************************************************************)
\* python values whose type decides how a call goes on
PyList(v) == [type |-> "list", v |-> v]

PyInt(v) == [type |-> "int", v |-> v]

\* the `file_names` and the `frames` the calls are made with
FileNames == PyList(<<"distance.txt">>)

Frames == PyInt(5000)

\* the snapshot folders in the order of the double loop: for directory in
\* locations, for idx in trajectories
Snapshots(locations, trajectories) ==
    [k \in 1..(Len(locations) * Len(trajectories)) |->
        <<locations[((k - 1) \div Len(trajectories)) + 1],
          trajectories[((k - 1) % Len(trajectories)) + 1]>>]

\* all([_path.exists(file) for file in files]); `found` is the set of the
\* snapshot folders that hold every file of file_names
Complete(snapshot, found) == snapshot \in found

\* variant in which every policy goes on after a folder with missing files
RaisedAt_Never(snaps, found, missing) == 0

\* the position of the folder at which `raise IOError` is reached, 0 if it
\* is not reached
RaisedAt(snaps, found, missing) ==
    IF missing = "error" /\ \E k \in DOMAIN snaps : ~Complete(snaps[k], found)
    THEN MinOf({k \in DOMAIN snaps : ~Complete(snaps[k], found)})
    ELSE 0

\* trajectory_data: `frames` rows of one column per file of the folder
Matrix(snapshot, file_names, frames) ==
    [snapshot |-> snapshot, file_names |-> file_names, frames |-> frames]

\* what MSM.load_data(locations, file_names, trajectories, frames, timestep,
\* features=None, missing) does to the MSM `self` (its data and its
\* __traj_locations): the new self.data, the new __traj_locations, the
\* printed missing_idx and how the call ends. len(file_names) is taken
\* before self.data is emptied and `for idx in trajectories` is reached for
\* the first directory
LoadedData(self, locations, file_names, trajectories, frames, found, missing) ==
    IF file_names.type # "list"
    THEN [data |-> self.data, locs |-> self.locs, missing_idx |-> <<>>, ret |-> "raised"]
    ELSE IF locations = <<>>
    THEN [data |-> <<>>, locs |-> self.locs, missing_idx |-> <<>>, ret |-> "ok"]
    ELSE IF trajectories.type # "list"
    THEN [data |-> <<>>, locs |-> self.locs, missing_idx |-> <<>>, ret |-> "raised"]
    ELSE LET snaps == Snapshots(locations, trajectories.v)
             at == RaisedAt(snaps, found, missing)
             visited == IF at = 0 THEN snaps ELSE SubSeq(snaps, 1, at - 1)
             kept == SelectSeq(visited, LAMBDA snap : Complete(snap, found))
         IN  [data |-> [k \in DOMAIN kept |-> Matrix(kept[k], file_names.v, frames.v)],
              locs |-> self.locs \o kept,
              missing_idx |-> IF missing = "warn"
                              THEN SelectSeq(visited, LAMBDA snap : ~Complete(snap, found))
                              ELSE <<>>,
              ret |-> IF at = 0 THEN "ok" ELSE "raised"]

\* MSM.__init__: self.data = None; self.__traj_locations = []
NoData == [data |-> <<>>, locs |-> <<>>]

\* the load that finds `count` complete snapshot folders in directory "x"
FullLoad(count) ==
    LoadedData(NoData, <<"x">>, FileNames, PyList([j \in 1..count |-> j]), Frames,
               {"x"} \X (1..count), "ignore")

(***************************************************************************)
(* MSM.__init__                                                            *)
(***************************************************************************)
\* self.msm = None
NoMsm == [built |-> FALSE, nstates |-> 0, active_set |-> <<>>,
          disconnected |-> <<>>, pi |-> <<>>]

\* the record of the most recent call: operation, receiver, reference MSM,
\* n_states, the `disconnected` argument (<<>> for None, <<d>> for index d),
\* overwrite flag, timestep (<<>> for None, <<value, unit>> otherwise), the
\* weight given to every microstate, the sampler's draw, and how the call
\* ended ("ok" returned after computing, "cached" returned the cached entry,
\*  "raised" an exception reached the caller, "hang" the call never returns);
\* args holds the list arguments of a call on the collection
Call(op, t, ref, n, ow, step, ret) ==
    [op |-> op, t |-> t, ref |-> ref, n |-> n, disc |-> <<>>, ow |-> ow,
     step |-> step, w |-> 1, sample |-> 0, ret |-> ret, args |-> <<>>]

NoCall == Call("none", "a", "a", 0, FALSE, <<>>, "ok")

\* the frame of the bootstrapping call in progress: pc is "idle" between
\* calls and "loop" at the head of the while loop; i and converged are the
\* locals of that name; rows0 is the number of probability rows found at
\* the start of the call.
\* failed counts the model constructions that raised, built tells whether
\* the latest construction succeeded, asked is the overwrite the caller of
\* MSMCollection.bootstrapping asked for, again tells that the call repeats a
\* converged call
NoBoot ==
    [pc |-> "idle", t |-> "a", ref |-> "a", n |-> 0, min_iter |-> 0, max_iter |-> 0,
     last |-> 0, ow |-> FALSE, asked |-> FALSE, i |-> 0, converged |-> FALSE,
     failed |-> 0, built |-> TRUE, rows0 |-> 0, again |-> FALSE]

\* a collection without MSMs and without clusters (clusters: <<>> for None);
\* as the content of a file: nothing saved yet
NoCollection == [exists |-> FALSE, MSMs |-> <<>>, clusters |-> <<>>]

\* MSMCollection.__init__(file=None): self._MSMs = {}; self.clusters = None;
\* MSM.__init__: self.state_labels = {}
CollInit ==
    /\ ratios = <<>>
    /\ MSMs = <<>>
    /\ clusters = <<>>
    /\ file = NoCollection
    /\ loaded = NoCollection
    /\ state_labels = [t \in Titles |-> <<>>]
    /\ trajectory_data = [t \in Titles |-> FullLoad(data[t]).data]
    /\ traj_locations = [t \in Titles |-> FullLoad(data[t]).locs]
    /\ missing_idx = <<>>

\* self.bootstrapping_data = {}; self.metastable_assignments_bootstrapped = {}
ExtraInit ==
    /\ bootstrapping_data = [t \in Titles |-> [k \in {} |-> <<>>]]
    /\ metastable_assignments_bootstrapped = [t \in Titles |-> [k \in {} |-> <<>>]]
    /\ boot = NoBoot
    /\ unfit = {}
    /\ CollInit

Init ==
    /\ data = [t \in Titles |-> 0]
    /\ cluster_centers = [t \in Titles |-> <<>>]
    /\ dtrajs = [t \in Titles |-> {}]
    /\ msm = [t \in Titles |-> NoMsm]
    /\ stationary_distribution = [t \in Titles |-> <<>>]
    /\ pcca = [t \in Titles |-> [n \in {} |-> <<>>]]
    /\ metastable_assignments = [t \in Titles |-> [k \in {} |-> <<>>]]
    /\ mfpt = [t \in Titles |-> [k \in {} |-> <<>>]]
    /\ mfpr = [t \in Titles |-> [k \in {} |-> <<>>]]
    /\ last = NoCall
    /\ ExtraInit

\* every action is a call made while no earlier call is still running
Idle == last.ret # "hang" /\ boot.pc = "idle"

(***************************************************************************)
(* MSM.load_data, MSM.cluster, MSM.assign_to_clusters                      *)
(***************************************************************************)
\* the lengths __traj_locations is followed to (it is never emptied)
RecordedLengths == 0..4

\* load_data(locations, file_names, trajectories, frames, missing=missing)
LoadData(t, locations, trajectories, found, missing) ==
    /\ Idle
    /\ \E r \in {LoadedData([data |-> trajectory_data[t], locs |-> traj_locations[t]],
                             locations, FileNames, PyList(trajectories), Frames, found,
                             missing)} :
        /\ Len(r.locs) \in RecordedLengths
        /\ data' = [data EXCEPT ![t] = Len(r.data)]
        /\ trajectory_data' = [trajectory_data EXCEPT ![t] = r.data]
        /\ traj_locations' = [traj_locations EXCEPT ![t] = r.locs]
        /\ missing_idx' = r.missing_idx
        /\ last' = [Call("load_data", t, t, 0, FALSE, <<>>, r.ret)
                       EXCEPT !.args = <<locations, trajectories, found, missing>>]
    /\ UNCHANGED <<bootstrapping_data, metastable_assignments_bootstrapped, boot, unfit,
                   collVars, cluster_centers, dtrajs, msm, stationary_distribution, pcca,
                   metastable_assignments, mfpt, mfpr>>

\* cluster(n_clusters, max_iter, centers): k-means over the loaded data; only
\* self.cluster_centers is assigned
Cluster(t, centers) ==
    /\ Idle
    /\ data[t] > 0
    /\ cluster_centers' = [cluster_centers EXCEPT ![t] = centers]
    /\ last' = Call("cluster", t, t, 0, FALSE, <<>>, "ok")
    /\ UNCHANGED <<extraVars, data, dtrajs, msm, stationary_distribution, pcca,
                   metastable_assignments, mfpt, mfpr>>

\* the microstates the frames of the data can be assigned to: any non-empty
\* set of indices of the centers (pyemma assign_to_centers)
AssignOutcomes(centers) == (SUBSET (0..(Len(centers) - 1))) \ {{}}

\* assign_to_clusters(cluster_centers): cc = <<>> stands for None
AssignToClusters(t, cc, visited) ==
    /\ Idle
    /\ data[t] > 0
    /\ LET centers == IF cc # <<>> THEN cc ELSE cluster_centers[t] IN
        /\ centers # <<>>
        /\ visited \in AssignOutcomes(centers)
        /\ cluster_centers' = [cluster_centers EXCEPT ![t] = centers]
        /\ dtrajs' = [dtrajs EXCEPT ![t] = visited]
    /\ last' = Call("assign_to_clusters", t, t, 0, FALSE, <<>>, "ok")
    /\ UNCHANGED <<extraVars, data, msm, stationary_distribution, pcca,
                   metastable_assignments, mfpt, mfpr>>

(***************************************************************************)
(* MSM.build_msm                                                           *)
(***************************************************************************)
\* orders in which connected_sets[1:] can list the disconnected microstates
DisconnectedOrders(S) ==
    {SortedSeq(S), [i \in 1..Cardinality(S) |-> SortedSeq(S)[Cardinality(S) + 1 - i]]}

\* the estimators bayesian_markov_model can return for discrete trajectories
\* that visit `visited`: the count matrix spans the microstates
\* 0..max(visited); connected_sets[0] (the active set, ascending) is a
\* non-empty set of visited microstates, every other microstate below the
\* maximum is in connected_sets[1:], and the stationary distribution has one
\* positive entry per active microstate
Estimators(visited) ==
    IF visited = {} THEN {} ELSE
    LET N == MaxOf(visited) + 1 IN
    UNION {{[built |-> TRUE, nstates |-> N, active_set |-> SortedSeq(A),
             disconnected |-> d, pi |-> [i \in 1..Cardinality(A) |-> p + i - 1]] :
                d \in DisconnectedOrders((0..(N - 1)) \ A), p \in PiBases} :
           A \in (SUBSET visited) \ {{}}}

\* numpy.insert(arr, idx, v) for 0 <= idx <= len(arr)
NpInsert(arr, idx, v) == SubSeq(arr, 1, idx) \o <<v>> \o SubSeq(arr, idx + 1, Len(arr))

\* stands for the IndexError of an insert beyond the end of the array
Raised == <<-1>>

RECURSIVE InsertZeros(_, _)
\* for center in centers: arr = insert(arr, center, 0.0)
InsertZeros(arr, centers) ==
    IF centers = <<>> THEN arr
    ELSE IF arr = Raised \/ Head(centers) > Len(arr) THEN Raised
    ELSE InsertZeros(NpInsert(arr, Head(centers), 0), Tail(centers))

\* variant without the sort: the zeros are inserted in listing order
SortedDisconnected_Unsorted(m) == m.disconnected

\* disconnected_sets = hstack(connected_sets[1:]); disconnected_sets.sort()
SortedDisconnected(m) == SortedSeq(Range(m.disconnected))

\* the stationary distribution after the insertion loop
WithDisconnected(m) == InsertZeros(m.pi, SortedDisconnected(m))

\* variant without the trailing top-up
AppendZeros_None(dist, K) == dist

\* while len(dist) != K: dist = append(dist, 0.0)   (for len(dist) <= K)
AppendZeros(dist, K) == dist \o [i \in 1..(K - Len(dist)) |-> 0]

\* build_msm(lag_time)
BuildMsm(t, m) ==
    /\ Idle
    /\ dtrajs[t] # {}
    /\ m \in Estimators(dtrajs[t])
    /\ msm' = [msm EXCEPT ![t] = m]
    /\ LET K == Len(cluster_centers[t])
           dist == WithDisconnected(m)
       IN  IF dist = Raised
           THEN /\ stationary_distribution' = [stationary_distribution EXCEPT ![t] = m.pi]
                /\ last' = Call("build_msm", t, t, 0, FALSE, <<>>, "raised")
           ELSE IF Len(dist) > K
           THEN \* the while loop only ever lengthens the array: it never ends
                /\ stationary_distribution' = [stationary_distribution EXCEPT ![t] = dist]
                /\ last' = Call("build_msm", t, t, 0, FALSE, <<>>, "hang")
           ELSE /\ stationary_distribution' =
                       [stationary_distribution EXCEPT ![t] = AppendZeros(dist, K)]
                /\ last' = Call("build_msm", t, t, 0, FALSE, <<>>, "ok")
    /\ UNCHANGED <<extraVars, data, cluster_centers, dtrajs, pcca, metastable_assignments, mfpt, mfpr>>

(***************************************************************************)
(* MSM.run_pcca                                                            *)
(***************************************************************************)
\* exact fractions <<numerator, denominator>> with a positive denominator;
\* NaN is the mean numpy returns for an empty slice
NaN == <<0, 0>>

IsNaN(f) == f[2] = 0

FracLess(f, g) == f[1] * g[2] < g[1] * f[2]

FracEq(f, g) == f[1] * g[2] = g[1] * f[2]

\* the offset added to the largest distance for sets of distance 0.0
EmptyOffset == 10

\* the outcomes of self.msm.pcca(n_states): metastable_sets as a membership
\* map from active-set-local positions to set numbers 0..n_states-1; a set
\* may be empty
PccaOutcomes(m, n) == [DOMAIN m.active_set -> 0..(n - 1)]

\* remapped[state]: the members of each metastable set as original microstate
\* indices, through connected_sets[0]
Remapped(m, memb, n) ==
    [s \in 1..n |->
        SortedSeq({m.active_set[i] : i \in {j \in DOMAIN m.active_set : memb[j] = s - 1}})]

\* numpy.linalg.norm(cluster_centers[members], axis=1).mean()
MeanNorm(centers, members) ==
    IF members = <<>> THEN NaN
    ELSE <<SumSeq([i \in DOMAIN members |-> Abs(centers[members[i] + 1])]), Len(members)>>

\* numpy max of an array of fractions: NaN as soon as one entry is NaN
FracMax(D) ==
    IF \E i \in DOMAIN D : IsNaN(D[i]) THEN NaN
    ELSE D[CHOOSE i \in DOMAIN D : \A j \in DOMAIN D : ~FracLess(D[i], D[j])]

\* distances[distances == 0.0] = distances.max() + 10, mx being distances.max()
WithSentinel(D, mx) ==
    [s \in DOMAIN D |->
        IF ~IsNaN(D[s]) /\ D[s][1] = 0
        THEN (IF IsNaN(mx) THEN NaN ELSE <<mx[1] + EmptyOffset * mx[2], mx[2]>>)
        ELSE D[s]]

\* i is placed before j by numpy's sort: ascending, NaN last, equal keys in
\* index order
SortsBefore(D, i, j) ==
    \/ ~IsNaN(D[i]) /\ IsNaN(D[j])
    \/ ~IsNaN(D[i]) /\ ~IsNaN(D[j]) /\ FracLess(D[i], D[j])
    \/ ~IsNaN(D[i]) /\ ~IsNaN(D[j]) /\ FracEq(D[i], D[j]) /\ i < j
    \/ IsNaN(D[i]) /\ IsNaN(D[j]) /\ i < j

\* distances.argsort(), as 1-based positions
Argsort(D) ==
    [r \in DOMAIN D |->
        CHOOSE i \in DOMAIN D : Cardinality({j \in DOMAIN D : SortsBefore(D, j, i)}) = r - 1]

\* the distance of each remapped set from the origin, before the sentinel
RawDistances(centers, remapped) ==
    [s \in DOMAIN remapped |-> MeanNorm(centers, remapped[s])]

\* reordered.append(remapped[state]) for state in distances.argsort()
Permuted(remapped, order) == [r \in DOMAIN remapped |-> remapped[order[r]]]

\* cluster_centers[members].mean(axis=0)
MeanCenter(centers, members) ==
    IF members = <<>> THEN NaN
    ELSE <<SumSeq([i \in DOMAIN members |-> centers[members[i] + 1]]), Len(members)>>

\* numpy.linalg.norm(cluster_av - center_xyz, axis=1)
DistanceTo(av, x) ==
    [i \in DOMAIN av |->
        IF IsNaN(av[i]) THEN NaN ELSE <<Abs(av[i][1] - x * av[i][2]), av[i][2]>>]

\* numpy argmin: the first NaN if there is one, else the first minimum
Argmin(D) ==
    IF \E i \in DOMAIN D : IsNaN(D[i])
    THEN MinOf({i \in DOMAIN D : IsNaN(D[i])})
    ELSE MinOf({i \in DOMAIN D : \A j \in DOMAIN D : ~FracLess(D[j], D[i])})

\* numpy.append(members, x) followed by sort(), members being sorted
InsertSorted(members, x) ==
    NpInsert(members, Cardinality({i \in DOMAIN members : members[i] <= x}), x)

RECURSIVE AddToNearest(_, _, _, _)
\* the loop of the disconnected=None branch over the listed microstates
AddToNearest(sets, listed, centers, av) ==
    IF listed = <<>> THEN sets
    ELSE LET to_add == Argmin(DistanceTo(av, centers[Head(listed) + 1])) IN
         AddToNearest([sets EXCEPT ![to_add] = InsertSorted(@, Head(listed))],
                      Tail(listed), centers, av)

RECURSIVE AppendAll(_, _)
\* state_to_add with every listed microstate appended, then sorted
AppendAll(members, listed) ==
    IF listed = <<>> THEN members
    ELSE AppendAll(InsertSorted(members, Head(listed)), Tail(listed))

\* python list indexing: reordered[d] exists for -n <= d < n
IndexOk(d, n) == -n <= d /\ d < n

\* the 1-based position python's reordered[d] denotes
ListPos(d, n) == IF d < 0 THEN d + n + 1 ELSE d + 1

\* cluster_av: the mean center of every reordered set
ClusterAv(centers, reordered) ==
    [i \in DOMAIN reordered |-> MeanCenter(centers, reordered[i])]

\* variant that appends to the set numbered disc in the PCCA order, i.e.
\* always to the first position of the given sequence
FoldDisconnected_First(m, centers, reordered, av, disc) ==
    IF disc = <<>>
    THEN AddToNearest(reordered, m.disconnected, centers, av)
    ELSE [reordered EXCEPT ![1] = AppendAll(@, m.disconnected)]

\* the sets run_pcca stores in self.pcca[n_states]; disc is <<>> for
\* disconnected=None and <<d>> for disconnected=d; av is cluster_av
FoldDisconnected(m, centers, reordered, av, disc) ==
    IF disc = <<>>
    THEN AddToNearest(reordered, m.disconnected, centers, av)
    ELSE [reordered EXCEPT ![ListPos(disc[1], Len(reordered))] =
                AppendAll(@, m.disconnected)]

\* an index of cluster_centers beyond its end raises IndexError
OutOfCenters(centers, idxs) == \E i \in DOMAIN idxs : idxs[i] >= Len(centers)

\* the call raises before self.pcca[n_states] is assigned
RaisesBeforeStore(m, centers, n, disc) ==
    \/ OutOfCenters(centers, m.active_set)
    \/ disc = <<>> /\ OutOfCenters(centers, m.disconnected)
    \/ disc # <<>> /\ ~IndexOk(disc[1], n)

\* the call raises while building pcca_centers, after the assignment
RaisesAfterStore(m, centers) == OutOfCenters(centers, m.disconnected)

\* reordered: the remapped sets in ascending order of sentinel-adjusted
\* distance (the singleton sets fix each intermediate array once)
Reordered(centers, remapped) ==
    CHOOSE reordered \in
        {Permuted(remapped, Argsort(distances)) :
            distances \in {WithSentinel(raw, FracMax(raw)) :
                              raw \in {RawDistances(centers, remapped)}}} : TRUE

\* the value run_pcca assigns to self.pcca[n_states] for the PCCA outcome memb
StoredPcca(m, centers, memb, n, disc) ==
    CHOOSE final \in
        {FoldDisconnected(m, centers, reordered, ClusterAv(centers, reordered), disc) :
            reordered \in {Reordered(centers, remapped) :
                              remapped \in {Remapped(m, memb, n)}}} : TRUE

\* how a run_pcca call on estimator m ends: "raised" before the assignment,
\* "stored-raised" after it, "ok" when it returns
PccaEnd(m, centers, n, disc) ==
    IF ~m.built \/ n > Len(m.active_set) \/ RaisesBeforeStore(m, centers, n, disc)
    THEN "raised"
    ELSE IF RaisesAfterStore(m, centers) THEN "stored-raised" ELSE "ok"

\* self.pcca after run_pcca(n_states, disconnected) on MSM t
PccaAfterRun(t, n, disc, memb) ==
    IF PccaEnd(msm[t], cluster_centers[t], n, disc) = "raised" THEN pcca
    ELSE [pcca EXCEPT ![t] =
            [k \in DOMAIN @ \cup {n} |->
                IF k = n THEN StoredPcca(msm[t], cluster_centers[t], memb, n, disc)
                ELSE @[k]]]

\* run_pcca(n_states, disconnected)
RunPcca(t, n, disc, memb) ==
    /\ Idle
    /\ msm[t].built
    /\ n <= Len(msm[t].active_set)
    /\ memb \in PccaOutcomes(msm[t], n)
    /\ pcca' = PccaAfterRun(t, n, disc, memb)
    /\ last' = [Call("run_pcca", t, t, n, FALSE, <<>>,
                     IF PccaEnd(msm[t], cluster_centers[t], n, disc) = "ok"
                     THEN "ok" ELSE "raised") EXCEPT !.disc = disc]
    /\ UNCHANGED <<extraVars, data, cluster_centers, dtrajs, msm, stationary_distribution,
                   metastable_assignments, mfpt, mfpr>>

(***************************************************************************)
(* Assignment keys and cached entries                                      *)
(***************************************************************************)
\* title = f'{msm.title}, {n_states} states'
Key(ref, n) == <<ref, n>>

\* dict[k] = v
Put(f, k, v) == [x \in DOMAIN f \cup {k} |-> IF x = k THEN v ELSE f[x]]

\* variant of the cache test that never finds an entry
Cached_Never(store, key, ow) == FALSE

\* `if title in <store> and not overwrite`
Cached(store, key, ow) == key \in DOMAIN store /\ ~ow

(***************************************************************************)
(* MSM.assign_to_metastable                                                *)
(***************************************************************************)
\* the `weights` arguments tried: every microstate weighted 1 (weights=None,
\* numpy.ones) or every microstate weighted 2
Weights == {1, 2}

\* variant that leaves the weights out
Weighted_Ones(dist, members, w) == [k \in DOMAIN members |-> dist[members[k] + 1]]

\* stationary_distribution[members] * weights[i]
Weighted(dist, members, w) == [k \in DOMAIN members |-> dist[members[k] + 1] * w]

\* the spread numpy.std reports, kept exact as len^2 * variance
\* = len * sum(x^2) - sum(x)^2
Spread(xs) == Len(xs) * SumSeq([k \in DOMAIN xs |-> xs[k] * xs[k]]) - SumSeq(xs) * SumSeq(xs)

\* [probability, error, counts] of one macrostate
Assignment(dist, members, w) ==
    IF Len(members) > 0
    THEN <<100 * SumSeq(Weighted(dist, members, w)),
           100 * Spread(Weighted(dist, members, w)), Len(members)>>
    ELSE <<0, 0, 0>>

\* indexing the stationary distribution with a non-empty macrostate raises
\* when the distribution is None (no MSM built) or an index is past its end
AssignmentRaises(dist, members) ==
    /\ Len(members) > 0
    /\ \/ dist = <<>>
       \/ \E k \in DOMAIN members : members[k] >= Len(dist)

\* the entries written by the loop over the macrostates: all of them, or
\* those before the first macrostate whose indexing raises
Assignments(dist, sets, w) ==
    LET bad == {i \in DOMAIN sets : AssignmentRaises(dist, sets[i])}
        upto == IF bad = {} THEN Len(sets) ELSE MinOf(bad) - 1
    IN  [i \in 1..upto |-> Assignment(dist, sets[i], w)]

\* the PCCA outcome consumed by a call that may have to run PCCA itself
PccaDraws(ref, n, disc) ==
    IF n \notin DOMAIN pcca[ref] /\ PccaEnd(msm[ref], cluster_centers[ref], n, disc) # "raised"
    THEN PccaOutcomes(msm[ref], n)
    ELSE {<<>>}

\* assign_to_metastable(n_states, disconnected, msm, verbose, overwrite,
\*                      metastable_sets=None, weights)
AssignToMetastable(t, ref, n, disc, ow, w, memb) ==
    /\ Idle
    /\ memb \in PccaDraws(ref, n, disc)
    /\ LET key == Key(ref, n)
           need == n \notin DOMAIN pcca[ref]
           end == IF need THEN PccaEnd(msm[ref], cluster_centers[ref], n, disc) ELSE "ok"
           call == [Call("assign_to_metastable", t, ref, n, ow, <<>>, "ok")
                       EXCEPT !.disc = disc, !.w = w]
       IN  /\ pcca' = IF need THEN PccaAfterRun(ref, n, disc, memb) ELSE pcca
           /\ IF end # "ok"
              THEN /\ metastable_assignments' = metastable_assignments
                   /\ last' = [call EXCEPT !.ret = "raised"]
              ELSE IF Cached(metastable_assignments[t], key, ow)
              THEN /\ metastable_assignments' = metastable_assignments
                   /\ last' = [call EXCEPT !.ret = "cached"]
              ELSE \E entry \in {Assignments(stationary_distribution[t], pcca'[ref][n], w)} :
                   /\ metastable_assignments' =
                          [metastable_assignments EXCEPT ![t] = Put(@, key, entry)]
                   /\ last' = [call EXCEPT !.ret = IF Len(entry) = n THEN "ok" ELSE "raised"]
    /\ UNCHANGED <<extraVars, data, cluster_centers, dtrajs, msm, stationary_distribution, mfpt, mfpr>>

(***************************************************************************)
(* ammo.utils._utils.__parse_time and MSM.compute_mfpt                     *)
(***************************************************************************)
\* load_data's default timestep, kept as self.timestep
DefaultTimestep == <<10, "ps">>

\* the `timestep` arguments tried; <<>> stands for None
Timesteps == {<<>>, <<20, "ps">>}

\* conversion = {'fs': -15, 'ps': -12, 'ns': -9, 'us': -6, 'ms': -3, 's': 0}
Conversion(unit) ==
    CASE unit = "fs" -> -15 [] unit = "ps" -> -12 [] unit = "ns" -> -9
      [] unit = "us" -> -6 [] unit = "ms" -> -3 [] unit = "s" -> 0

RECURSIVE Pow10(_)
Pow10(k) == IF k = 0 THEN 1 ELSE 10 * Pow10(k - 1)

\* _parse_time(timestep, 'us', 6, 'number'): the value in microseconds rounded
\* to 6 digits, kept as the integer number of 10^-6 microseconds
ParseTime(ts) ==
    LET e == Conversion(ts[2]) + 12 IN
    IF e >= 0 THEN ts[1] * Pow10(e)
    ELSE (ts[1] + (Pow10(-e) \div 2)) \div Pow10(-e)

\* if timestep is None: timestep = self.timestep
Timestep(ts) == IF ts = <<>> THEN DefaultTimestep ELSE ts

\* the draws of the Bayesian sampler: for draw b the sampled passage times
\* from macrostate i to macrostate j have mean b + n*(i-1) + j and standard
\* deviation b
SampleDraws == {1, 2}

SampleMean(b, n, pair) == b + n * (pair[1] - 1) + pair[2]

SampleStd(b) == b

\* the 0-based position of microstate c in the active set
\* (numpy.where(active_set == center)[0][0])
PositionIn(active, c) == (CHOOSE k \in DOMAIN active : active[k] = c) - 1

\* new_centers: the members that are in the receiver's active set, as
\* positions in that active set
LocalCenters(active, members) ==
    LET kept == {k \in DOMAIN members : members[k] \in Range(active)}
        pos == SortedSeq(kept)
    IN  [r \in 1..Cardinality(kept) |-> PositionIn(active, members[pos[r]])]

\* the ordered pairs of the double loop that are transitions, keyed 1-based
Transitions(n) == {pair \in (1..n) \X (1..n) : pair[1] # pair[2]}

\* sample_f('mfpt', A, B) raises for an empty A or B (pyemma takes the
\* maximum of each set to check it against the active set)
SampleRaises(sets, pair) == sets[pair[1]] = <<>> \/ sets[pair[2]] = <<>>

\* the pairs visited before the pair (i, j) in the double loop
Before(pair, other) ==
    other[1] < pair[1] \/ (other[1] = pair[1] /\ other[2] < pair[2])

\* the pairs stored by the double loop: all transitions, or those before
\* the first one whose sampling raises
StoredPairs(sets) ==
    {pair \in Transitions(Len(sets)) :
        \A other \in Transitions(Len(sets)) :
            (other = pair \/ Before(pair, other)) => ~SampleRaises(sets, other)}

\* [mean, std, unit] of one transition
PassageTime(b, n, pair, ts) ==
    [mean |-> SampleMean(b, n, pair) * ParseTime(ts),
     std |-> SampleStd(b) * ParseTime(ts), unit |-> "us"]

\* the sampling loop of compute_mfpt for the macrostates `sets` (already
\* reduced to the receiver's active set), which replace the reference MSM's
\* pcca[n_states] in place
MfptSampled(t, ref, n, ts, b, pcca1, mfpt1, sets) ==
    [pcca |-> [pcca1 EXCEPT ![ref] = Put(@, n, sets)],
     mfpt |-> [mfpt1 EXCEPT ![t] =
                 Put(@, Key(ref, n),
                     [pair \in StoredPairs(sets) |-> PassageTime(b, n, pair, Timestep(ts))])],
     ret |-> IF \E i \in DOMAIN sets : sets[i] = <<>> THEN "raised" ELSE "ok"]

\* compute_mfpt after `self.mfpt[title] = {}` (mfpt1) and the PCCA run on the
\* reference MSM, if one was needed (pcca1; `end` is how that run ended)
MfptLocalised(t, ref, n, ts, b, pcca1, mfpt1, end) ==
    IF end # "ok" \/ ~msm[t].built
    THEN [pcca |-> pcca1, mfpt |-> mfpt1, ret |-> "raised"]
    ELSE CHOOSE done \in
            {MfptSampled(t, ref, n, ts, b, pcca1, mfpt1, sets) :
                sets \in {[i \in 1..n |-> LocalCenters(msm[t].active_set, pcca1[ref][n][i])]}} :
            TRUE

\* the state compute_mfpt(n_states, timestep, msm, verbose, overwrite) leaves
\* when it does not return the cached entry: the reference MSM's pcca, the
\* receiver's mfpt and how the call ended
MfptComputed(t, ref, n, ts, memb, b) ==
    CHOOSE done \in
        {MfptLocalised(t, ref, n, ts, b, pcca1, mfpt1, end) :
            pcca1 \in {IF n \notin DOMAIN pcca[ref]
                       THEN PccaAfterRun(ref, n, <<>>, memb) ELSE pcca},
            mfpt1 \in {[mfpt EXCEPT ![t] = Put(@, Key(ref, n), << >>)]},
            end \in {IF n \notin DOMAIN pcca[ref]
                     THEN PccaEnd(msm[ref], cluster_centers[ref], n, <<>>) ELSE "ok"}} :
        TRUE

\* compute_mfpt(n_states, timestep, msm, verbose, overwrite)
ComputeMfpt(t, ref, n, ts, ow, memb, b) ==
    /\ Idle
    /\ memb \in PccaDraws(ref, n, <<>>)
    /\ LET call == [Call("compute_mfpt", t, ref, n, ow, ts, "ok") EXCEPT !.sample = b] IN
       IF Cached(mfpt[t], Key(ref, n), ow)
       THEN /\ UNCHANGED <<pcca, mfpt>>
            /\ last' = [call EXCEPT !.ret = "cached"]
       ELSE \E done \in {MfptComputed(t, ref, n, ts, memb, b)} :
            /\ pcca' = done.pcca
            /\ mfpt' = done.mfpt
            /\ last' = [call EXCEPT !.ret = done.ret]
    /\ UNCHANGED <<extraVars, data, cluster_centers, dtrajs, msm, stationary_distribution,
                   metastable_assignments, mfpr>>

(***************************************************************************)
(* MSM.compute_mfpr                                                        *)
(***************************************************************************)
\* the product of two fractions
FracMul(f, g) == <<f[1] * g[1], f[2] * g[2]>>

\* rate = 1 / info[0]; error = rate * (info[1] / info[0])
Rate(info) ==
    [rate |-> <<1, info.mean>>,
     error |-> FracMul(<<1, info.mean>>, <<info.std, info.mean>>),
     unit |-> info.unit]

\* the state compute_mfpr leaves when it does not return the cached entry
MfprComputed(t, ref, n, ts, ow, memb, b) ==
    CHOOSE out \in
        {[pcca |-> done.pcca, mfpt |-> done.mfpt,
          mfpr |-> [mfpr EXCEPT ![t] =
                      Put(@, Key(ref, n),
                          IF done.ret = "raised" THEN << >>
                          ELSE [pair \in DOMAIN done.mfpt[t][Key(ref, n)] |->
                                    Rate(done.mfpt[t][Key(ref, n)][pair])])],
          ret |-> done.ret] :
            done \in {IF Key(ref, n) \notin DOMAIN mfpt[t] \/ ow
                      THEN MfptComputed(t, ref, n, ts, memb, b)
                      ELSE [pcca |-> pcca, mfpt |-> mfpt, ret |-> "ok"]}} : TRUE

\* compute_mfpr(n_states, timestep, msm, verbose, overwrite)
ComputeMfpr(t, ref, n, ts, ow, memb, b) ==
    /\ Idle
    /\ memb \in PccaDraws(ref, n, <<>>)
    /\ LET key == Key(ref, n)
           call == [Call("compute_mfpr", t, ref, n, ow, ts, "ok") EXCEPT !.sample = b]
       IN
       IF Cached(mfpr[t], key, ow)
       THEN /\ UNCHANGED <<pcca, mfpt, mfpr>>
            /\ last' = [call EXCEPT !.ret = "cached"]
       ELSE \E done \in {MfprComputed(t, ref, n, ts, ow, memb, b)} :
            /\ pcca' = done.pcca
            /\ mfpt' = done.mfpt
            /\ mfpr' = done.mfpr
            /\ last' = [call EXCEPT !.ret = done.ret]
    /\ UNCHANGED <<extraVars, data, cluster_centers, dtrajs, msm, stationary_distribution,
                   metastable_assignments>>

(***************************************************************************)
(* MSM.compare_states_and_timescales                                       *)
(***************************************************************************)
\* lines 1639-1640: self.assign_to_metastable(n_states, msm, verbose=False,
\* overwrite=overwrite) binds the reference MSM to the parameter
\* `disconnected`, so the receiver is its own reference and the entry goes
\* under the receiver's own key; a PCCA run, if one is needed, raises at
\* reordered[disconnected] (an MSM object is no list index) before self.pcca
\* is assigned
CompareAssigned(t, ref, n, ow) ==
    IF Key(ref, n) \in DOMAIN metastable_assignments[t]
    THEN [ma |-> metastable_assignments, ret |-> "ok"]
    ELSE IF n \notin DOMAIN pcca[t]
    THEN [ma |-> metastable_assignments, ret |-> "raised"]
    ELSE IF Cached(metastable_assignments[t], Key(t, n), ow)
    THEN [ma |-> metastable_assignments, ret |-> "ok"]
    ELSE CHOOSE out \in
            {[ma |-> [metastable_assignments EXCEPT ![t] = Put(@, Key(t, n), entry)],
              ret |-> IF Len(entry) = n THEN "ok" ELSE "raised"] :
                entry \in {Assignments(stationary_distribution[t], pcca[t][n], 1)}} : TRUE

\* the pairs of the double loop: i < j
UnorderedPairs(n) == {pair \in (1..n) \X (1..n) : pair[1] < pair[2]}

\* every lookup of the double loop finds its entry
RatiosDefined(assigned, rates, key, n) ==
    UnorderedPairs(n) # {} =>
        /\ key \in DOMAIN assigned
        /\ key \in DOMAIN rates
        /\ \A pair \in UnorderedPairs(n) :
              /\ {pair[1], pair[2]} \subseteq DOMAIN assigned[key]
              /\ {pair, <<pair[2], pair[1]>>} \subseteq DOMAIN rates[key]

\* (max(states) / min(states), max(transitions) / min(transitions)) for
\* every pair, each quotient kept as <<numerator, denominator>>
Ratios(entry, rate, n) ==
    [pair \in UnorderedPairs(n) |->
        LET p == entry[pair[1]][1]
            q == entry[pair[2]][1]
            f == rate[pair].rate
            g == rate[<<pair[2], pair[1]>>].rate
        IN  [states |-> <<MaxOf({p, q}), MinOf({p, q})>>,
             transitions |-> IF FracLess(f, g) THEN <<g, f>> ELSE <<f, g>>]]

\* compare_states_and_timescales(n_states, timestep, msm, overwrite)
CompareStatesAndTimescales(t, ref, n, ts, ow, memb, b) ==
    /\ Idle
    /\ memb \in PccaDraws(ref, n, <<>>)
    /\ LET key == Key(ref, n)
           call == [Call("compare_states_and_timescales", t, ref, n, ow, ts, "ok")
                       EXCEPT !.sample = b]
       IN  \E a \in {CompareAssigned(t, ref, n, ow)} :
           /\ metastable_assignments' = a.ma
           /\ IF a.ret = "raised"
              THEN /\ UNCHANGED <<pcca, mfpt, mfpr>>
                   /\ ratios' = <<>>
                   /\ last' = [call EXCEPT !.ret = "raised"]
              ELSE \E k \in {IF key \notin DOMAIN mfpr[t]
                             THEN MfprComputed(t, ref, n, ts, ow, memb, b)
                             ELSE [pcca |-> pcca, mfpt |-> mfpt, mfpr |-> mfpr, ret |-> "ok"]} :
                   /\ pcca' = k.pcca
                   /\ mfpt' = k.mfpt
                   /\ mfpr' = k.mfpr
                   /\ IF k.ret = "raised" \/ ~RatiosDefined(a.ma[t], k.mfpr[t], key, n)
                      THEN /\ ratios' = <<>>
                           /\ last' = [call EXCEPT !.ret = "raised"]
                      ELSE /\ ratios' = Ratios(a.ma[t][key], k.mfpr[t][key], n)
                           /\ last' = call
    /\ UNCHANGED <<data, cluster_centers, dtrajs, msm, stationary_distribution,
                   bootstrapping_data, metastable_assignments_bootstrapped, boot, unfit, loadVars,
                   MSMs, clusters, file, loaded, state_labels>>

(***************************************************************************)
(* MSM.bootstrapping_convergence                                           *)
(***************************************************************************)
\* the default `tol`
DefaultTol == 1

RECURSIVE ProdSeq(_)
ProdSeq(s) == IF s = <<>> THEN 1 ELSE Head(s) * ProdSeq(Tail(s))

\* probabilities[:last_idx] of column c, summed
PrefixSum(rows, c, len) == SumSeq([r \in 1..len |-> rows[r][c]])

\* last_idx = len(probabilities) - last + i + 1 for i in range(last)
WindowLengths(rows, lst) == [k \in 1..lst |-> Len(rows) - lst + k]

\* __fit_gaus raises RuntimeError for a window of column c
FitRaises(c, len) == <<c, len>> \in unfit

\* the fitted mu of every window of column c, all scaled by the product of
\* the window lengths (the mu of a window is taken to be its mean)
MuValues(rows, c, lst) ==
    LET lens == WindowLengths(rows, lst) IN
    [k \in 1..lst |-> PrefixSum(rows, c, lens[k]) * (ProdSeq(lens) \div lens[k])]

\* all(abs(mu_values - mu_values.mean()) < tol)
WithinTol(mus, scale, tol) ==
    \A k \in DOMAIN mus : Abs(Len(mus) * mus[k] - SumSeq(mus)) < tol * Len(mus) * scale

\* the body of the loop over the columns, for column c: FALSE when a fit
\* raises or a mu is out of tolerance
ColumnConverged(rows, c, tol, lst) ==
    /\ \A k \in 1..lst : ~FitRaises(c, WindowLengths(rows, lst)[k])
    /\ WithinTol(MuValues(rows, c, lst), ProdSeq(WindowLengths(rows, lst)), tol)

\* bootstrapping_convergence(state_probabilities, tol, last): "True",
\* "False", or "raised" for the 1-D empty array numpy.array([]) (shape[1] is
\* an IndexError) and for rows without columns (`converged` is unbound)
BootstrappingConvergence(rows, tol, lst) ==
    IF rows = <<>> \/ rows[1] = <<>> THEN "raised"
    ELSE IF Len(rows) < lst THEN "False"
    ELSE IF \A c \in DOMAIN rows[1] : ColumnConverged(rows, c, tol, lst)
    THEN "True" ELSE "False"

(***************************************************************************)
(* MSM.__build_bootstrapped_msm and MSM.bootstrapping                      *)
(***************************************************************************)
\* traj_idxs: one index into self.data per trajectory
Resamples(t) == [1..data[t] -> 0..(data[t] - 1)]

\* the stationary distribution __build_bootstrapped_msm returns for the
\* estimator e of the resampled data (e = NoMsm: the estimator raised)
BootstrappedDistribution(t, e) == AppendZeros(WithDisconnected(e), Len(cluster_centers[t]))

\* variant whose row has a further entry, the probability of all microstates
Probability_WithTotal(dist, sets) ==
    IF \E i \in DOMAIN sets : \E k \in DOMAIN sets[i] : sets[i][k] >= Len(dist)
    THEN Raised
    ELSE Append([i \in DOMAIN sets |->
                    100 * SumSeq([k \in DOMAIN sets[i] |-> dist[sets[i][k] + 1]])],
                100 * SumSeq(dist))

\* round(stationary_distribution[list(state_clusters)].sum() * 100, 2) for
\* every macrostate; Raised when an index is past the end
Probability(dist, sets) ==
    IF \E i \in DOMAIN sets : \E k \in DOMAIN sets[i] : sets[i][k] >= Len(dist)
    THEN Raised
    ELSE [i \in DOMAIN sets |-> 100 * SumSeq([k \in DOMAIN sets[i] |-> dist[sets[i][k] + 1]])]

\* the empty accumulators of line 1888
NoRows == [probabilities |-> <<>>, trajectories |-> <<>>]

\* variant of the loop test that stops at the minimum
LoopRuns_MinimumOnly(b) == b.i <= b.min_iter

\* while (not converged and i <= max_iter) or i <= min_iter
LoopRuns(b) == (~b.converged /\ b.i <= b.max_iter) \/ b.i <= b.min_iter

\* variant that restarts the convergence flag on cached rows
StartConverged_Restart(rows, tol, lst) == "False"

\* converged = self.bootstrapping_convergence(cached probabilities, tol, last)
StartConverged(rows, tol, lst) == BootstrappingConvergence(rows, tol, lst)

\* variant in which a failed construction advances the counter
AfterFailure_Counted(b) == [b EXCEPT !.failed = @ + 1, !.built = FALSE, !.i = @ + 1]

\* except Exception: continue
AfterFailure(b) == [b EXCEPT !.failed = @ + 1, !.built = FALSE]

\* [av_prob, sdev, i - 1] for every macrostate column of the rows
Reported(rows, n, count) ==
    [j \in 1..n |->
        <<<<PrefixSum(rows, j, Len(rows)), Len(rows)>>,
          Spread([r \in 1..Len(rows) |-> rows[r][j]]), count>>]

\* the call about to start repeats, with overwrite=False, the parameters of
\* the previous call, which returned converged
Repeats(t, ref, n, min_iter, max_iter, lst, ow) ==
    /\ last.ret = "ok" /\ boot.converged /\ ~ow
    /\ <<boot.t, boot.ref, boot.n, boot.min_iter, boot.max_iter, boot.last>>
         = <<t, ref, n, min_iter, max_iter, lst>>

\* bootstrapping(n_states, msm, lag_time=None, cluster_centers, min_iter,
\* max_iter, tol, last, verbose, overwrite) up to the head of the while loop;
\* `asked` is the overwrite of the enclosing collection call, if any
BootstrappingStart(op, t, ref, n, min_iter, max_iter, lst, ow, asked) ==
    /\ Idle
    /\ LET key == Key(ref, n)
           cached == key \in DOMAIN bootstrapping_data[t] /\ ~ow
           rows == IF cached THEN bootstrapping_data[t][key].probabilities ELSE <<>>
           conv == IF cached THEN StartConverged(rows, DefaultTol, lst) ELSE "False"
           raises == ~msm[t].built \/ conv = "raised"
       IN  /\ bootstrapping_data' =
                IF cached \/ ~msm[t].built THEN bootstrapping_data
                ELSE [bootstrapping_data EXCEPT ![t] = Put(@, key, NoRows)]
           /\ boot' = [pc |-> IF raises THEN "idle" ELSE "loop",
                       t |-> t, ref |-> ref, n |-> n, min_iter |-> min_iter,
                       max_iter |-> max_iter, last |-> lst, ow |-> ow, asked |-> asked,
                       i |-> Len(rows) + 1, converged |-> (conv = "True"),
                       failed |-> 0, built |-> TRUE, rows0 |-> Len(rows),
                       again |-> Repeats(t, ref, n, min_iter, max_iter, lst, ow)]
           /\ last' = Call(op, t, ref, n, asked, <<>>, IF raises THEN "raised" ELSE "running")
    /\ UNCHANGED <<data, cluster_centers, dtrajs, msm, stationary_distribution, pcca,
                   metastable_assignments, mfpt, mfpr, metastable_assignments_bootstrapped,
                   unfit, loadVars, collVars>>

\* MSM.bootstrapping called directly
Bootstrapping(t, ref, n, min_iter, max_iter, lst, ow) ==
    BootstrappingStart("bootstrapping", t, ref, n, min_iter, max_iter, lst, ow, ow)

\* MSMCollection.bootstrapping(n_states, msm=ref, titles=t, ..., overwrite):
\* the call of line 880 passes no overwrite
CollectionBootstrapping(t, ref, n, min_iter, max_iter, lst, ow) ==
    BootstrappingStart("collection.bootstrapping", t, ref, n, min_iter, max_iter, lst,
                       FALSE, ow)

\* one pass through the body of the while loop: idxs are the resampled
\* trajectory indices, e the estimator of the resampled data
BootstrapIteration(idxs, e) ==
    /\ boot.pc = "loop"
    /\ LoopRuns(boot)
    /\ idxs \in Resamples(boot.t)
    /\ LET t == boot.t
           key == Key(boot.ref, boot.n)
           acc == bootstrapping_data[t][key]
       IN
       IF ~e.built
       THEN /\ boot' = AfterFailure(boot)
            /\ UNCHANGED <<bootstrapping_data, last>>
       ELSE IF boot.n \notin DOMAIN pcca[boot.ref]
               \/ Probability(BootstrappedDistribution(t, e), pcca[boot.ref][boot.n]) = Raised
       THEN /\ boot' = [boot EXCEPT !.pc = "idle", !.built = TRUE]
            /\ last' = [last EXCEPT !.ret = "raised"]
            /\ UNCHANGED bootstrapping_data
       ELSE \E rows \in {Append(acc.probabilities,
                                Probability(BootstrappedDistribution(t, e),
                                            pcca[boot.ref][boot.n]))} :
            /\ bootstrapping_data' =
                 [bootstrapping_data EXCEPT ![t][key] =
                     [probabilities |-> rows, trajectories |-> Append(acc.trajectories, idxs)]]
            /\ boot' = [boot EXCEPT
                          !.converged = IF boot.i >= boot.min_iter
                                        THEN BootstrappingConvergence(rows, DefaultTol, boot.last) = "True"
                                        ELSE @,
                          !.i = @ + 1, !.built = TRUE]
            /\ UNCHANGED last
    /\ UNCHANGED <<data, cluster_centers, dtrajs, msm, stationary_distribution, pcca,
                   metastable_assignments, mfpt, mfpr, metastable_assignments_bootstrapped,
                   unfit, loadVars, collVars>>

\* the loop has ended: lines 1916-1924
BootstrappingReturn ==
    /\ boot.pc = "loop"
    /\ ~LoopRuns(boot)
    /\ LET t == boot.t
           key == Key(boot.ref, boot.n)
       IN  metastable_assignments_bootstrapped' =
               IF key \notin DOMAIN metastable_assignments_bootstrapped[t] \/ boot.ow
               THEN [metastable_assignments_bootstrapped EXCEPT ![t] =
                       Put(@, key, Reported(bootstrapping_data[t][key].probabilities,
                                            boot.n, boot.i - 1))]
               ELSE metastable_assignments_bootstrapped
    /\ boot' = [boot EXCEPT !.pc = "idle", !.failed = 0, !.built = TRUE]
    /\ last' = [last EXCEPT !.ret = "ok"]
    /\ UNCHANGED <<data, cluster_centers, dtrajs, msm, stationary_distribution, pcca,
                   metastable_assignments, mfpt, mfpr, bootstrapping_data, unfit, loadVars, collVars>>

(***************************************************************************)
(* MSMCollection: add_msm, remove_msm, load_data, cluster, save, __load     *)
(***************************************************************************)
\* an MSM object as pickle writes it: its title and every attribute
Snapshot(t) ==
    [title |-> t, data |-> data[t], cluster_centers |-> cluster_centers[t],
     dtrajs |-> dtrajs[t], msm |-> msm[t],
     stationary_distribution |-> stationary_distribution[t], pcca |-> pcca[t],
     metastable_assignments |-> metastable_assignments[t], mfpt |-> mfpt[t],
     mfpr |-> mfpr[t], bootstrapping_data |-> bootstrapping_data[t],
     metastable_assignments_bootstrapped |-> metastable_assignments_bootstrapped[t],
     state_labels |-> state_labels[t], trajectory_data |-> trajectory_data[t],
     traj_locations |-> traj_locations[t]]

\* MSM(title) for the titles in `made`: every attribute as __init__ sets it;
\* counts is self.data of every MSM after the call
Constructed(made, counts) ==
    /\ data' = counts
    /\ cluster_centers' = [t \in Titles |-> IF t \in made THEN <<>> ELSE cluster_centers[t]]
    /\ dtrajs' = [t \in Titles |-> IF t \in made THEN {} ELSE dtrajs[t]]
    /\ msm' = [t \in Titles |-> IF t \in made THEN NoMsm ELSE msm[t]]
    /\ stationary_distribution' =
          [t \in Titles |-> IF t \in made THEN <<>> ELSE stationary_distribution[t]]
    /\ pcca' = [t \in Titles |-> IF t \in made THEN <<>> ELSE pcca[t]]
    /\ metastable_assignments' =
          [t \in Titles |-> IF t \in made THEN <<>> ELSE metastable_assignments[t]]
    /\ mfpt' = [t \in Titles |-> IF t \in made THEN <<>> ELSE mfpt[t]]
    /\ mfpr' = [t \in Titles |-> IF t \in made THEN <<>> ELSE mfpr[t]]
    /\ bootstrapping_data' =
          [t \in Titles |-> IF t \in made THEN <<>> ELSE bootstrapping_data[t]]
    /\ metastable_assignments_bootstrapped' =
          [t \in Titles |-> IF t \in made THEN <<>>
                            ELSE metastable_assignments_bootstrapped[t]]
    /\ state_labels' = [t \in Titles |-> IF t \in made THEN <<>> ELSE state_labels[t]]

\* the attributes of every MSM object
msmVars == <<data, cluster_centers, dtrajs, msm, stationary_distribution, pcca,
             metastable_assignments, mfpt, mfpr, bootstrapping_data,
             metastable_assignments_bootstrapped, state_labels,
             trajectory_data, traj_locations>>

\* add_msm(msm): `kind` is "obj" for the MSM object titled `title`, "str" for
\* the string `title` (a new MSM of that title is made) and anything else
\* for an argument that is neither
AddMsm(kind, title) ==
    /\ Idle
    /\ IF kind = "obj"
       THEN /\ MSMs' = Put(MSMs, title, title)
            /\ UNCHANGED msmVars
            /\ last' = Call("add_msm", title, title, 0, FALSE, <<>>, "ok")
       ELSE IF kind = "str"
       THEN /\ MSMs' = Put(MSMs, title, title)
            /\ Constructed({title}, [data EXCEPT ![title] = 0])
            /\ trajectory_data' = [trajectory_data EXCEPT ![title] = NoData.data]
            /\ traj_locations' = [traj_locations EXCEPT ![title] = NoData.locs]
            /\ last' = Call("add_msm", title, title, 0, FALSE, <<>>, "ok")
       ELSE /\ UNCHANGED <<MSMs, msmVars>>
            /\ last' = Call("add_msm", title, title, 0, FALSE, <<>>, "raised")
    /\ UNCHANGED <<boot, unfit, missing_idx, ratios, clusters, file, loaded>>

\* remove_msm(title): self._MSMs.pop(title)
RemoveMsm(title) ==
    /\ Idle
    /\ MSMs' = [k \in DOMAIN MSMs \ {title} |-> MSMs[k]]
    /\ last' = Call("remove_msm", title, title, 0, FALSE, <<>>,
                    IF title \in DOMAIN MSMs THEN "ok" ELSE "raised")
    /\ UNCHANGED <<msmVars, boot, unfit, loadVars, ratios, clusters, file, loaded>>

\* variant without the check of the lengths
LengthsMatch_Unchecked(titles, locations) == TRUE

\* line 174: len(titles) != len(locations) raises IndexError
LengthsMatch(titles, locations) == Len(titles) = Len(locations)

\* the MSMs as the loop over zip(titles, locations) leaves them: `acc` holds
\* the dict, the titles of the MSMs made, the data and __traj_locations of
\* every MSM, what was printed as missing and how the call goes on. A new
\* title is loaded into a new MSM, which is added when its load returns; for
\* a title of the dict, line 184 hands (location, trajectories, frames,
\* file_names) to the parameters (locations, file_names, trajectories, frames)
RECURSIVE LoadedCollection(_, _, _, _, _, _, _)
LoadedCollection(acc, titles, locations, trajectories, found, missing, reload) ==
    IF titles = <<>> \/ locations = <<>> \/ acc.ret = "raised" THEN acc
    ELSE LET title == Head(titles)
             new == title \notin DOMAIN acc.MSMs
             r == IF new
                  THEN LoadedData(NoData, Head(locations), FileNames, PyList(trajectories),
                                  Frames, found, missing)
                  ELSE LoadedData(acc.self[title], Head(locations), PyList(trajectories),
                                  Frames, FileNames, found, "ignore")
         IN  IF ~new /\ ~reload
             THEN LoadedCollection(acc, Tail(titles), Tail(locations), trajectories, found,
                                   missing, reload)
             ELSE LoadedCollection(
                     [MSMs |-> IF new /\ r.ret = "ok" THEN Put(acc.MSMs, title, title)
                               ELSE acc.MSMs,
                      made |-> IF new /\ r.ret = "ok" THEN acc.made \cup {title} ELSE acc.made,
                      self |-> IF new /\ r.ret # "ok" THEN acc.self
                               ELSE [acc.self EXCEPT ![title] = [data |-> r.data, locs |-> r.locs]],
                      missing_idx |-> acc.missing_idx \o r.missing_idx,
                      ret |-> r.ret],
                     Tail(titles), Tail(locations), trajectories, found, missing, reload)

\* MSMCollection.load_data(titles, locations, file_names, trajectories, frames,
\* missing=missing, reload=reload); a location is a list of directories
CollectionLoadData(titles, locations, trajectories, found, missing, reload) ==
    /\ Idle
    /\ LET call == [Call("collection.load_data", "a", "a", 0, reload, <<>>, "ok")
                       EXCEPT !.args = <<titles, locations, trajectories, found, missing>>]
       IN  IF ~LengthsMatch(titles, locations)
           THEN /\ UNCHANGED <<MSMs, msmVars, missing_idx>>
                /\ last' = [call EXCEPT !.ret = "raised"]
           ELSE \E done \in {LoadedCollection(
                                [MSMs |-> MSMs, made |-> {},
                                 self |-> [t \in Titles |-> [data |-> trajectory_data[t],
                                                             locs |-> traj_locations[t]]],
                                 missing_idx |-> <<>>, ret |-> "ok"],
                                titles, locations, trajectories, found, missing, reload)} :
                    /\ MSMs' = done.MSMs
                    /\ Constructed(done.made, [t \in Titles |-> Len(done.self[t].data)])
                    /\ trajectory_data' = [t \in Titles |-> done.self[t].data]
                    /\ traj_locations' = [t \in Titles |-> done.self[t].locs]
                    /\ missing_idx' = done.missing_idx
                    /\ last' = [call EXCEPT !.ret = done.ret]
    /\ UNCHANGED <<boot, unfit, ratios, clusters, file, loaded>>

\* MSMCollection.cluster(titles=None, n_clusters, max_iter, centers):
\* get_all_data stacks the data of every MSM and raises when there is none
CollectionCluster(centers) ==
    /\ Idle
    /\ IF DOMAIN MSMs = {} \/ \E k \in DOMAIN MSMs : data[MSMs[k]] = 0
       THEN /\ UNCHANGED clusters
            /\ last' = Call("collection.cluster", "a", "a", 0, FALSE, <<>>, "raised")
       ELSE /\ clusters' = centers
            /\ last' = Call("collection.cluster", "a", "a", 0, FALSE, <<>>, "ok")
    /\ UNCHANGED <<msmVars, boot, unfit, loadVars, ratios, MSMs, file, loaded>>

\* pickle.dump(self, file)
Pickled ==
    [exists |-> TRUE, MSMs |-> [k \in DOMAIN MSMs |-> Snapshot(MSMs[k])], clusters |-> clusters]

\* save(file)
Save ==
    /\ Idle
    /\ file' = Pickled
    /\ last' = Call("save", "a", "a", 0, FALSE, <<>>, "ok")
    /\ UNCHANGED <<msmVars, boot, unfit, loadVars, ratios, MSMs, clusters, loaded>>

\* for msm in unpickled.get_all().values(): self.add_msm(msm)
AddAll(members) ==
    [k \in {members[j].title : j \in DOMAIN members} |->
        CHOOSE m \in Range(members) : m.title = k]

\* variant of __load that leaves self.clusters as __init__ set it
Unpickled_NoClusters(f) ==
    [exists |-> TRUE, MSMs |-> AddAll(f.MSMs), clusters |-> <<>>]

\* __load(file) on the collection that __init__ has just made empty
Unpickled(f) ==
    [exists |-> TRUE, MSMs |-> AddAll(f.MSMs), clusters |-> f.clusters]

\* MSMCollection(file): open raises when nothing was saved
Load ==
    /\ Idle
    /\ IF file.exists
       THEN /\ loaded' = Unpickled(file)
            /\ last' = Call("load", "a", "a", 0, FALSE, <<>>, "ok")
       ELSE /\ UNCHANGED loaded
            /\ last' = Call("load", "a", "a", 0, FALSE, <<>>, "raised")
    /\ UNCHANGED <<msmVars, boot, unfit, loadVars, ratios, MSMs, clusters, file>>

(***************************************************************************)
(* MSMCollection.assign_to_clusters                                        *)
(***************************************************************************)
\* the characters of a title, which is what a python loop over a str goes
\* through
Characters(title) == IF title = "a" THEN <<"a">> ELSE <<"a", "b">>

\* the keys of `for key in titles` (lines 254-259): the keys of the dict, in
\* its order, for None; the elements of a list; the characters of a str
TitleKeys(arg, order) ==
    IF arg.kind = "none" THEN order
    ELSE IF arg.kind = "str" THEN Characters(arg.title)
    ELSE arg.list

\* the positions of the keys at which the loop raises: a key that is not in
\* the dict (KeyError), an MSM without data (nothing to assign)
FailingKeys(keys) ==
    {i \in DOMAIN keys : keys[i] \notin DOMAIN MSMs \/ data[keys[i]] = 0}

\* MSMCollection.assign_to_clusters(titles, clusters): cc is `clusters` (<<>>
\* for None, which takes self.clusters.clustercenters), order the order of
\* the keys of the dict, visited the microstates the data of each MSM is
\* assigned to. MSM.assign_to_clusters sets cluster_centers before it assigns
CollectionAssignToClusters(arg, cc, order, visited) ==
    /\ Idle
    /\ order \in Orderings(DOMAIN MSMs)
    /\ LET centers == IF cc # <<>> THEN cc ELSE clusters
           keys == TitleKeys(arg, order)
           bad == FailingKeys(keys)
           upto == IF bad = {} THEN Len(keys) ELSE MinOf(bad) - 1
           assigned == {keys[i] : i \in 1..upto}
           centered == assigned \cup
                          (IF bad # {} /\ keys[MinOf(bad)] \in DOMAIN MSMs
                           THEN {keys[MinOf(bad)]} ELSE {})
           call == [Call("collection.assign_to_clusters", "a", "a", 0, FALSE, <<>>, "ok")
                       EXCEPT !.args = <<arg, cc>>]
       IN  IF centers = <<>>
           THEN /\ UNCHANGED <<cluster_centers, dtrajs>>
                /\ last' = [call EXCEPT !.ret = "raised"]
           ELSE /\ \A t \in assigned : visited[t] \in AssignOutcomes(centers)
                /\ cluster_centers' =
                      [t \in Titles |-> IF t \in centered THEN centers ELSE cluster_centers[t]]
                /\ dtrajs' = [t \in Titles |-> IF t \in assigned THEN visited[t] ELSE dtrajs[t]]
                /\ last' = [call EXCEPT !.ret = IF bad = {} THEN "ok" ELSE "raised"]
    /\ UNCHANGED <<data, msm, stationary_distribution, pcca, metastable_assignments, mfpt,
                   mfpr, bootstrapping_data, metastable_assignments_bootstrapped, boot, unfit,
                   loadVars, collVars>>

(***************************************************************************)
(* MSMCollection.pcca_assignments and add_state_labels                     *)
(***************************************************************************)
\* the `disconnected` argument as the list zipped with `msm`: None and an
\* int are repeated len(msm) times, a list is taken as it is; an element is
\* <<>> for None and <<d>> for the index d
DisconnectedList(arg, count) ==
    IF arg.kind = "list" THEN arg.list ELSE [i \in 1..count |-> arg.list]

\* the PCCA outcome consumed when the reference MSM has to run PCCA
CollectionPccaDraws(ref, n, disc, ow) ==
    IF ref \in DOMAIN MSMs /\ (n \notin DOMAIN pcca[ref] \/ ow)
       /\ PccaEnd(msm[ref], cluster_centers[ref], n, disc) # "raised"
    THEN PccaOutcomes(msm[ref], n)
    ELSE {<<>>}

\* the loop over `titles` for one reference MSM: every title before the
\* first one that raises is assigned in full, that one up to the macrostate
\* that raises (a title outside the collection is a KeyError)
AssignedTitles(titles, ref, n, ow, sets) ==
    LET entry(t) == Assignments(stationary_distribution[t], sets, 1)
        bad == {i \in DOMAIN titles :
                   \/ titles[i] \notin DOMAIN MSMs
                   \/ /\ ~Cached(metastable_assignments[titles[i]], Key(ref, n), ow)
                      /\ Len(entry(titles[i])) # Len(sets)}
        upto == IF bad = {} THEN Len(titles) ELSE MinOf(bad)
        written == {titles[i] : i \in 1..upto} \cap DOMAIN MSMs
    IN  [ma |-> [t \in Titles |->
                    IF t \in written /\ ~Cached(metastable_assignments[t], Key(ref, n), ow)
                    THEN Put(metastable_assignments[t], Key(ref, n), entry(t))
                    ELSE metastable_assignments[t]],
         ret |-> IF bad = {} THEN "ok" ELSE "raised"]

\* pcca_assignments(n_states, msm=ref, titles, disconnected, overwrite) with
\* one reference title
PccaAssignments(n, ref, titles, arg, ow, memb) ==
    /\ Idle
    /\ LET call == [Call("collection.pcca_assignments", "a", ref, n, ow, <<>>, "ok")
                       EXCEPT !.args = <<titles, DisconnectedList(arg, 1)>>]
           discs == DisconnectedList(arg, 1)
       IN  IF Len(discs) # 1 \/ ref \notin DOMAIN MSMs
           THEN /\ UNCHANGED <<pcca, metastable_assignments>>
                /\ last' = [call EXCEPT !.ret = "raised"]
           ELSE /\ memb \in CollectionPccaDraws(ref, n, discs[1], ow)
                /\ \E need \in {n \notin DOMAIN pcca[ref] \/ ow} :
                   \E end \in {IF need THEN PccaEnd(msm[ref], cluster_centers[ref], n, discs[1])
                               ELSE "ok"} :
                   /\ pcca' = IF need THEN PccaAfterRun(ref, n, discs[1], memb) ELSE pcca
                   /\ IF end # "ok"
                      THEN /\ UNCHANGED metastable_assignments
                           /\ last' = [call EXCEPT !.ret = "raised"]
                      ELSE \E out \in {AssignedTitles(titles, ref, n, ow, pcca'[ref][n])} :
                           /\ metastable_assignments' = out.ma
                           /\ last' = [call EXCEPT !.ret = out.ret]
    /\ UNCHANGED <<data, cluster_centers, dtrajs, msm, stationary_distribution, mfpt, mfpr,
                   bootstrapping_data, metastable_assignments_bootstrapped, boot, unfit, loadVars,
                   collVars>>

\* MSM.add_state_labels(n_states, labels)
AddStateLabels(t, n, labels) ==
    /\ Idle
    /\ IF Len(labels) # n
       THEN /\ UNCHANGED state_labels
            /\ last' = [Call("add_state_labels", t, t, n, FALSE, <<>>, "raised")
                           EXCEPT !.args = <<labels>>]
       ELSE /\ state_labels' = [state_labels EXCEPT ![t] = Put(@, n, labels)]
            /\ last' = [Call("add_state_labels", t, t, n, FALSE, <<>>, "ok")
                           EXCEPT !.args = <<labels>>]
    /\ UNCHANGED <<data, cluster_centers, dtrajs, msm, stationary_distribution, pcca,
                   metastable_assignments, mfpt, mfpr, bootstrapping_data,
                   metastable_assignments_bootstrapped, boot, unfit, loadVars,
                   ratios, MSMs, clusters, file, loaded>>

\* MSMCollection.add_state_labels(n_states, labels, titles): the MSMs are
\* labelled in the order of `titles` until one call raises
CollectionAddStateLabels(titles, n, labels) ==
    /\ Idle
    /\ \E bad \in {{i \in DOMAIN titles : titles[i] \notin DOMAIN MSMs \/ Len(labels) # n}} :
       \E done \in {IF bad = {} THEN Len(titles) ELSE MinOf(bad) - 1} :
           /\ state_labels' =
                 [t \in Titles |-> IF t \in {titles[i] : i \in 1..done}
                                   THEN Put(state_labels[t], n, labels)
                                   ELSE state_labels[t]]
           /\ last' = [Call("collection.add_state_labels", "a", "a", n, FALSE, <<>>,
                            IF bad = {} THEN "ok" ELSE "raised")
                          EXCEPT !.args = <<labels, titles>>]
    /\ UNCHANGED <<data, cluster_centers, dtrajs, msm, stationary_distribution, pcca,
                   metastable_assignments, mfpt, mfpr, bootstrapping_data,
                   metastable_assignments_bootstrapped, boot, unfit, loadVars,
                   ratios, MSMs, clusters, file, loaded>>

(***************************************************************************)
(* Specification of one MSM's construction: load, cluster, assign, build   *)
(***************************************************************************)
\* one center array of every size 2..MaxK (the coordinates play no part in
\* these operations)
BuildCenterArrays == {[i \in 1..k |-> i - 1] : k \in 2..MaxK}

NextBuild ==
    \/ \E c \in TrajCounts :
            LoadData("a", <<"x">>, [j \in 1..c |-> j], {"x"} \X (1..c), "ignore")
    \/ \E centers \in BuildCenterArrays : Cluster("a", centers)
    \/ \E cc \in BuildCenterArrays \cup {<<>>}, v \in SUBSET (0..(MaxK - 1)) :
            AssignToClusters("a", cc, v)
    \/ \E m \in Estimators(dtrajs["a"]) : BuildMsm("a", m)

SpecBuild == Init /\ [][NextBuild]_vars

(***************************************************************************)
(* Specification of run_pcca on a built MSM                                *)
(***************************************************************************)
\* center arrays of every size 2..MaxK over the coordinates
CenterArrays == UNION {[1..k -> Coords] : k \in 2..MaxK}

\* the `disconnected` arguments tried: None, the indices -1, 0, 1 and the
\* index MaxStates, which is beyond the end for every n_states
DiscArgs == {<<>>} \cup {<<d>> : d \in {-1, 0, 1, MaxStates}}

\* every state build_msm can leave MSM "a" in, with the discrete trajectories
\* visiting all of 0..N-1 for some N <= K
InitPcca ==
    \E centers \in CenterArrays :
    \E N \in 1..Len(centers) :
    \E m \in {e \in Estimators(0..(N - 1)) : e.pi[1] = MinOf(PiBases)} :
        /\ data = [t \in Titles |-> IF t = "a" THEN MinOf(TrajCounts) ELSE 0]
        /\ cluster_centers = [t \in Titles |-> IF t = "a" THEN centers ELSE <<>>]
        /\ dtrajs = [t \in Titles |-> IF t = "a" THEN 0..(N - 1) ELSE {}]
        /\ msm = [t \in Titles |-> IF t = "a" THEN m ELSE NoMsm]
        /\ stationary_distribution =
             [t \in Titles |-> IF t = "a"
                               THEN AppendZeros(WithDisconnected(m), Len(centers))
                               ELSE <<>>]
        /\ pcca = [t \in Titles |-> [n \in {} |-> <<>>]]
        /\ metastable_assignments = [t \in Titles |-> [k \in {} |-> <<>>]]
        /\ mfpt = [t \in Titles |-> [k \in {} |-> <<>>]]
        /\ mfpr = [t \in Titles |-> [k \in {} |-> <<>>]]
        /\ last = Call("build_msm", "a", "a", 0, FALSE, <<>>, "ok")
        /\ ExtraInit

\* the first run_pcca call on MSM "a"
NextPcca ==
    \E n \in NStates, disc \in DiscArgs :
    \E memb \in PccaOutcomes(msm["a"], n) :
        /\ last.op # "run_pcca"
        /\ RunPcca("a", n, disc, memb)

SpecPcca == InitPcca /\ [][NextPcca]_vars


(***************************************************************************)
(* Specification of the cached kinetics of MSM "a" for one assignment key  *)
(***************************************************************************)
\* the estimator whose active set is A, out of MaxK visited microstates
KinEstimator(A) ==
    CHOOSE e \in Estimators(0..(MaxK - 1)) :
        /\ Range(e.active_set) = A
        /\ e.pi[1] = MinOf(PiBases)
        /\ e.disconnected = SortedDisconnected(e)

\* MSM "a" is not built, has every microstate active, or has the last
\* microstate disconnected; MSM "ab" has the first microstate disconnected
KinTargets == {NoMsm, KinEstimator(0..(MaxK - 1)), KinEstimator(0..(MaxK - 2))}

KinReference == KinEstimator(1..(MaxK - 1))

\* the PCCA outcomes tried: macrostates that are contiguous along the active
\* set (empty macrostates included)
Contiguous(memb) == \A i, j \in DOMAIN memb : i < j => memb[i] <= memb[j]

\* both MSMs have loaded data and share MaxK cluster centers
InitKin ==
    \E ma \in KinTargets :
    \E centers \in {[i \in 1..MaxK |-> i - 1]} :
    \E m \in {[t \in Titles |-> IF t = "a" THEN ma ELSE KinReference]} :
        /\ data = [t \in Titles |-> MinOf(TrajCounts)]
        /\ cluster_centers = [t \in Titles |-> centers]
        /\ dtrajs = [t \in Titles |-> 0..(MaxK - 1)]
        /\ msm = m
        /\ stationary_distribution =
             [t \in Titles |-> IF m[t].built
                               THEN AppendZeros(WithDisconnected(m[t]), MaxK)
                               ELSE <<>>]
        /\ pcca = [t \in Titles |-> [n \in {} |-> <<>>]]
        /\ metastable_assignments = [t \in Titles |-> [k \in {} |-> <<>>]]
        /\ mfpt = [t \in Titles |-> [k \in {} |-> <<>>]]
        /\ mfpr = [t \in Titles |-> [k \in {} |-> <<>>]]
        /\ last = NoCall
        /\ ExtraInit

\* every cached artefact so far belongs to the assignment key (ref, n)
OnlyKey(ref, n) ==
    \A t \in Titles :
        /\ DOMAIN pcca[t] \subseteq (IF t = ref THEN {n} ELSE {})
        /\ DOMAIN metastable_assignments[t] \subseteq {Key(ref, n)}
        /\ DOMAIN mfpt[t] \subseteq {Key(ref, n)}
        /\ DOMAIN mfpr[t] \subseteq {Key(ref, n)}

\* calls on MSM "a" with reference "a" (msm=None) or "ab", all for one key;
\* assign_to_metastable is called with its default `disconnected`
NextKin ==
    \/ \E ref \in Titles, n \in NStates :
        /\ OnlyKey(ref, n)
        /\ \E memb \in {f \in PccaDraws(ref, n, <<0>>) : Contiguous(f)} :
           \E ow \in BOOLEAN, w \in Weights :
               AssignToMetastable("a", ref, n, <<0>>, ow, w, memb)
    \/ \E ref \in Titles, n \in NStates :
        /\ OnlyKey(ref, n)
        /\ \E memb \in {f \in PccaDraws(ref, n, <<>>) : Contiguous(f)} :
           \E ts \in Timesteps, ow \in BOOLEAN, b \in SampleDraws :
               ComputeMfpt("a", ref, n, ts, ow, memb, b)
    \/ \E ref \in Titles, n \in NStates :
        /\ OnlyKey(ref, n)
        /\ \E memb \in {f \in PccaDraws(ref, n, <<>>) : Contiguous(f)} :
           \E ts \in Timesteps, ow \in BOOLEAN, b \in SampleDraws :
               ComputeMfpr("a", ref, n, ts, ow, memb, b)

SpecKin == InitKin /\ [][NextKin]_vars

(***************************************************************************)
(* Specification of the comparison of state and timescale ratios on MSM "a" *)
(***************************************************************************)
\* every cached artefact so far is for n macrostates
OnlyStates(n) ==
    \A t \in Titles :
        /\ DOMAIN pcca[t] \subseteq {n}
        /\ \A key \in DOMAIN metastable_assignments[t] \cup DOMAIN mfpt[t] \cup DOMAIN mfpr[t] :
              key[2] = n

\* calls on MSM "a" with reference "a" (msm=None) or "ab", all for one number
\* of macrostates and the default timestep; PCCA is run once per MSM
NextCmp ==
    \/ \E t \in Titles, n \in NStates :
        /\ OnlyStates(n)
        /\ n \notin DOMAIN pcca[t]
        /\ \E memb \in {f \in PccaOutcomes(msm[t], n) : Contiguous(f)} :
               RunPcca(t, n, <<>>, memb)
    \/ \E ref \in Titles, n \in NStates :
        /\ OnlyStates(n)
        /\ \E memb \in {f \in PccaDraws(ref, n, <<0>>) : Contiguous(f)} :
               AssignToMetastable("a", ref, n, <<0>>, FALSE, 1, memb)
    \/ \E ref \in Titles, n \in NStates :
        /\ OnlyStates(n)
        /\ \E memb \in {f \in PccaDraws(ref, n, <<>>) : Contiguous(f)} :
           \E ow \in BOOLEAN :
               CompareStatesAndTimescales("a", ref, n, <<>>, ow, memb, MinOf(SampleDraws))

SpecCmp == InitKin /\ [][NextCmp]_vars

(***************************************************************************)
(* Specification of bootstrapping on MSM "a" with its own partition        *)
(***************************************************************************)
\* largest min_iter / max_iter
MaxIter == 2
\* a model construction may fail while the call has had this many failures
FailuresFollowed == {0}

\* the `last` arguments tried
Lasts == {1, 2}

\* the windows curve_fit cannot fit: none, or the two-row window of column 2
Unfits == {{}, {<<2, 2>>}}

\* the n_states tried: 2 (PCCA has run for it) and 3 (it has not)
BootStates == {2, 3}

\* the resamples followed: every trajectory once (the estimator has every
\* microstate active), the last trajectory only (the last microstate is
\* disconnected), the first trajectory only (the estimator raises)
BootDraws ==
    LET count == MinOf(TrajCounts) IN
    {[idxs |-> [j \in 1..count |-> j - 1], e |-> KinEstimator(0..(MaxK - 1))],
     [idxs |-> [j \in 1..count |-> count - 1], e |-> KinEstimator(0..(MaxK - 2))],
     [idxs |-> [j \in 1..count |-> 0], e |-> NoMsm]}

\* MSM "a" is built with every microstate active and has run PCCA for two
\* macrostates (the first microstate against the others); no PCCA for more
InitBoot ==
    \E centers \in {[i \in 1..MaxK |-> i - 1]} :
    \E m \in {KinEstimator(0..(MaxK - 1))} :
    \E memb \in {[k \in 1..MaxK |-> IF k = 1 THEN 0 ELSE 1]} :
        /\ data = [t \in Titles |-> IF t = "a" THEN MinOf(TrajCounts) ELSE 0]
        /\ cluster_centers = [t \in Titles |-> IF t = "a" THEN centers ELSE <<>>]
        /\ dtrajs = [t \in Titles |-> IF t = "a" THEN 0..(MaxK - 1) ELSE {}]
        /\ msm = [t \in Titles |-> IF t = "a" THEN m ELSE NoMsm]
        /\ stationary_distribution =
             [t \in Titles |-> IF t = "a" THEN AppendZeros(WithDisconnected(m), MaxK)
                               ELSE <<>>]
        /\ pcca = [t \in Titles |->
                     IF t = "a" THEN (2 :> StoredPcca(m, centers, memb, 2, <<>>))
                     ELSE [n \in {} |-> <<>>]]
        /\ metastable_assignments = [t \in Titles |-> [k \in {} |-> <<>>]]
        /\ mfpt = [t \in Titles |-> [k \in {} |-> <<>>]]
        /\ mfpr = [t \in Titles |-> [k \in {} |-> <<>>]]
        /\ last = NoCall
        /\ bootstrapping_data = [t \in Titles |-> [k \in {} |-> <<>>]]
        /\ metastable_assignments_bootstrapped = [t \in Titles |-> [k \in {} |-> <<>>]]
        /\ boot = NoBoot
        /\ unfit \in Unfits
        /\ CollInit

\* the collection is called with overwrite=True (with overwrite=False it
\* makes the same call as MSM.bootstrapping with overwrite=False)
NextBoot ==
    \/ \E n \in BootStates, min_iter \in 1..MaxIter, max_iter \in 1..MaxIter,
          lst \in Lasts, ow \in BOOLEAN :
            Bootstrapping("a", "a", n, min_iter, max_iter, lst, ow)
    \/ \E n \in BootStates, max_iter \in 1..MaxIter, ow \in BOOLEAN :
            CollectionBootstrapping("a", "a", n, 1, max_iter, 1, ow)
    \/ \E d \in BootDraws :
            /\ d.e.built \/ boot.failed \in FailuresFollowed
            /\ BootstrapIteration(d.idxs, d.e)
    \/ BootstrappingReturn

SpecBoot == InitBoot /\ [][NextBoot]_vars

(***************************************************************************)
(* Specification of an MSM collection: members, labels, save and load      *)
(***************************************************************************)
\* the `titles` arguments tried
TitleLists == {<<"a">>, <<"ab">>, <<"a", "ab">>}

\* the `locations` arguments tried: one or two locations, each the
\* directory "x"
LocationLists == {<<<<"x">>>>, <<<<"x">>, <<"x">>>>}

\* the `disconnected` arguments tried: None, the index 0 and lists of no, one
\* and two indices
DisconnectedArgs ==
    {[kind |-> "none", list |-> <<>>], [kind |-> "int", list |-> <<0>>]}
    \cup {[kind |-> "list", list |-> l] : l \in {<<>>, <<<<0>>>>, <<<<0>>, <<0>>>>}}

\* the `labels` arguments tried
LabelLists == {<<"on">>, <<"on", "off">>}

\* MSM "a" is built on MaxK cluster centers with every microstate active,
\* MSM "ab" has just been made; neither is in the collection yet
InitColl ==
    \E centers \in {[i \in 1..MaxK |-> i - 1]} :
    \E m \in {KinEstimator(0..(MaxK - 1))} :
        /\ data = [t \in Titles |-> IF t = "a" THEN MinOf(TrajCounts) ELSE 0]
        /\ cluster_centers = [t \in Titles |-> IF t = "a" THEN centers ELSE <<>>]
        /\ dtrajs = [t \in Titles |-> IF t = "a" THEN 0..(MaxK - 1) ELSE {}]
        /\ msm = [t \in Titles |-> IF t = "a" THEN m ELSE NoMsm]
        /\ stationary_distribution =
             [t \in Titles |-> IF t = "a" THEN AppendZeros(WithDisconnected(m), MaxK)
                               ELSE <<>>]
        /\ pcca = [t \in Titles |-> [n \in {} |-> <<>>]]
        /\ metastable_assignments = [t \in Titles |-> [k \in {} |-> <<>>]]
        /\ mfpt = [t \in Titles |-> [k \in {} |-> <<>>]]
        /\ mfpr = [t \in Titles |-> [k \in {} |-> <<>>]]
        /\ last = NoCall
        /\ ExtraInit

\* the collection is worked on (MSMs are added and removed, MSM "ab" is
\* loaded, the data is clustered, MSM "a" is assigned to its own macrostates),
\* saved, and loaded into a new collection; it is left as it is once it has
\* been saved
NextColl ==
    \/ \E kind \in {"obj", "str", "int"}, title \in Titles :
            ~file.exists /\ AddMsm(kind, title)
    \/ \E title \in Titles : ~file.exists /\ RemoveMsm(title)
    \/ \E c \in TrajCounts :
            /\ ~file.exists
            /\ CollectionLoadData(<<"ab">>, <<<<"x">>>>, [j \in 1..c |-> j], {"x"} \X (1..c),
                                  "ignore", FALSE)
    \/ \E centers \in {[i \in 1..MaxK |-> i - 1]} : ~file.exists /\ CollectionCluster(centers)
    \/ \E arg \in {[kind |-> "none", list |-> <<>>]} :
       \E memb \in {f \in CollectionPccaDraws("a", MinOf(NStates), <<>>, FALSE) : Contiguous(f)} :
            ~file.exists /\ PccaAssignments(MinOf(NStates), "a", <<"a">>, arg, FALSE, memb)
    \/ Save
    \/ Load

SpecColl == InitColl /\ [][NextColl]_vars

(***************************************************************************)
(* Specification of the calls on a collection that check their arguments   *)
(***************************************************************************)
NextConf ==
    \/ \E title \in Titles : AddMsm("obj", title)
    \/ \E titles \in TitleLists, locations \in LocationLists, reload \in BOOLEAN :
       \E c \in TrajCounts :
            CollectionLoadData(titles, locations, [j \in 1..c |-> j], {"x"} \X (1..c),
                               "ignore", reload)
    \/ \E titles \in TitleLists, arg \in DisconnectedArgs :
       \E state \in {IF Len(DisconnectedList(arg, 1)) = 1
                      THEN DisconnectedList(arg, 1)[1] ELSE <<>>} :
       \E memb \in {f \in CollectionPccaDraws("a", MinOf(NStates), state, FALSE) :
                       Contiguous(f)} :
            PccaAssignments(MinOf(NStates), "a", titles, arg, FALSE, memb)
    \/ \E t \in Titles, labels \in LabelLists : AddStateLabels(t, MinOf(NStates), labels)
    \/ \E titles \in TitleLists, labels \in LabelLists :
            CollectionAddStateLabels(titles, MinOf(NStates), labels)

SpecConf == InitColl /\ [][NextConf]_vars

(***************************************************************************)
(* Specification of the loading of featurised data into MSM "a"            *)
(***************************************************************************)
\* the directories of featurised data and the snapshot indices asked for
Directories == {"x", "y"}

Trajectories == <<1, 2>>

\* the `locations` arguments tried
DirectoryLists == {<<"x">>, <<"x", "y">>}

\* the `missing` arguments tried
MissingPolicies == {"error", "warn", "ignore"}

\* the sets of snapshot folders that can hold every feature file
FoundSets == SUBSET (Directories \X Range(Trajectories))

NextLoad ==
    \E locations \in DirectoryLists, found \in FoundSets, missing \in MissingPolicies :
        LoadData("a", locations, Trajectories, found, missing)

SpecLoad == Init /\ [][NextLoad]_vars

(***************************************************************************)
(* Specification of the clustering of a collection                         *)
(***************************************************************************)
\* the `titles` arguments tried: None, a title as a str, lists of titles
TitleArgs ==
    {[kind |-> "none", title |-> "", list |-> <<>>]}
    \cup {[kind |-> "str", title |-> t, list |-> <<>>] : t \in Titles}
    \cup {[kind |-> "list", title |-> "", list |-> l] : l \in TitleLists}

\* the microstates the frames of the MSMs are assigned to
VisitedSets == {[t \in Titles |-> v] : v \in {{0}, {0, 1}}}

\* MSMs are added to the collection, MSM "ab" is loaded into it, the data of
\* the collection is clustered into two centers (MSM "a" has MaxK of its own)
\* and the MSMs are assigned to the shared centers or to given ones
NextAssign ==
    \/ \E title \in Titles : AddMsm("obj", title)
    \/ \E c \in TrajCounts :
            CollectionLoadData(<<"ab">>, <<<<"x">>>>, [j \in 1..c |-> j], {"x"} \X (1..c),
                               "ignore", FALSE)
    \/ \E centers \in {<<0, 1>>} : CollectionCluster(centers)
    \/ \E arg \in TitleArgs, cc \in {<<>>, <<1, 0>>}, visited \in VisitedSets :
       \E order \in Orderings(DOMAIN MSMs) :
            CollectionAssignToClusters(arg, cc, order, visited)

SpecAssign == InitColl /\ [][NextAssign]_vars

(***************************************************************************)
(* Claims about build_msm                                                  *)
(***************************************************************************)
\* the last call was a build_msm that returned
BuildReturned == last.op = "build_msm" /\ last.ret = "ok"

\* C1: after build_msm returns, stationary_distribution has exactly K entries,
\* K the number of cluster centers, whatever microstates are disconnected or
\* were never visited.
C1_LengthIsK ==
    BuildReturned =>
        Len(stationary_distribution[last.t]) = Len(cluster_centers[last.t])

\* a build that returned with disconnected microstates and with trailing
\* microstates no trajectory visited
C1_Witness ==
    /\ BuildReturned
    /\ msm[last.t].disconnected # <<>>
    /\ msm[last.t].nstates < Len(cluster_centers[last.t])

\* the entry build_msm must store for microstate index c: the estimator's
\* probability at the active-set-local position of c, 0 outside the active set
ExpectedEntry(m, c) ==
    IF \E i \in DOMAIN m.active_set : m.active_set[i] = c
    THEN m.pi[CHOOSE i \in DOMAIN m.active_set : m.active_set[i] = c]
    ELSE 0

\* C2: after build_msm returns, the entry at each original microstate index is
\* the estimator's probability at that microstate's active-set-local position
\* for active microstates and exactly 0 for every other microstate.
C2_EntriesAtOriginalIndex ==
    BuildReturned =>
        \A c \in 0..(Len(cluster_centers[last.t]) - 1) :
            /\ c + 1 \in DOMAIN stationary_distribution[last.t]
            /\ stationary_distribution[last.t][c + 1] = ExpectedEntry(msm[last.t], c)

\* a build that returned where a disconnected microstate lies below an active
\* one and a trailing microstate was never visited
C2_Witness ==
    /\ BuildReturned
    /\ \E i \in DOMAIN msm[last.t].active_set, j \in DOMAIN msm[last.t].disconnected :
            msm[last.t].disconnected[j] < msm[last.t].active_set[i]
    /\ msm[last.t].nstates < Len(cluster_centers[last.t])

\* C3 (as claimed): in every state reached after build_msm, through any later
\* cluster / assign_to_clusters calls, the length of stationary_distribution
\* equals the number of cluster centers the MSM currently holds.
C3_LengthTracksCenters ==
    \A t \in Titles :
        (msm[t].built /\ last.ret = "ok") =>
            Len(stationary_distribution[t]) = Len(cluster_centers[t])

(***************************************************************************)
(* Claims about run_pcca                                                   *)
(***************************************************************************)
\* the last call was a run_pcca that returned
PccaReturned == last.op = "run_pcca" /\ last.ret = "ok"

\* the sets the last run_pcca stored
StoredSets == pcca[last.t][last.n]

\* how many times microstate c occurs in the sets
Occurrences(sets, c) ==
    Cardinality({<<s, i>> \in (DOMAIN sets) \X (0..MaxK) :
                    i \in DOMAIN sets[s] /\ sets[s][i] = c})

\* C4 (as claimed): after run_pcca returns, for disconnected None or an index,
\* the n_states stored sets partition the full microstate range 0..K-1: every
\* index, active, disconnected or never visited, is in exactly one set.
C4_PartitionOfAllMicrostates ==
    PccaReturned =>
        /\ Len(StoredSets) = last.n
        /\ \A c \in 0..(Len(cluster_centers[last.t]) - 1) : Occurrences(StoredSets, c) = 1

\* the members of stored set s that PCCA put there: its active microstates
PccaMembers(s) ==
    SortedSeq(Range(StoredSets[s]) \cap Range(msm[last.t].active_set))

\* C5 (as claimed): in the stored order the non-empty metastable sets are in
\* ascending order of the mean norm of their member centers, and every empty
\* set comes after every non-empty set.
C5_AscendingDistanceEmptyLast ==
    PccaReturned =>
        \A i, j \in DOMAIN StoredSets :
            i < j =>
                /\ PccaMembers(i) = <<>> => PccaMembers(j) = <<>>
                /\ (PccaMembers(i) # <<>> /\ PccaMembers(j) # <<>>) =>
                      ~FracLess(MeanNorm(cluster_centers[last.t], PccaMembers(j)),
                                MeanNorm(cluster_centers[last.t], PccaMembers(i)))

\* C6: run_pcca with a disconnected index d in 0..n_states-1 puts every
\* microstate of every disconnected component in stored set d and in no other
\* set, and stored set d is sorted by microstate index.
C6_DisconnectedInStateD ==
    (PccaReturned /\ last.disc # <<>> /\ last.disc[1] \in 0..(last.n - 1)) =>
        LET d == last.disc[1] + 1 IN
        /\ \A c \in Range(msm[last.t].disconnected) :
              \A s \in DOMAIN StoredSets : (c \in Range(StoredSets[s])) <=> (s = d)
        /\ \A i, j \in DOMAIN StoredSets[d] : i < j => StoredSets[d][i] < StoredSets[d][j]

\* a run with disconnected=1 on an MSM with a disconnected microstate whose
\* index is below that of a PCCA member of stored set 1
C6_Witness ==
    /\ PccaReturned
    /\ last.disc = <<1>>
    /\ \E c \in Range(msm[last.t].disconnected) :
          \E i \in DOMAIN PccaMembers(2) : c < PccaMembers(2)[i]

\* the distance from center c to the mean center of the PCCA members of set s
DistanceToSet(s, c) ==
    DistanceTo(<<MeanCenter(cluster_centers[last.t], PccaMembers(s))>>,
               cluster_centers[last.t][c + 1])[1]

\* C7 (as claimed): run_pcca with disconnected=None adds each disconnected
\* microstate to the macrostate whose mean member center, computed before any
\* insertion, is nearest to it.
C7_NearestFrozenMean ==
    (PccaReturned /\ last.disc = <<>>) =>
        \A c \in Range(msm[last.t].disconnected) :
            \E s \in DOMAIN StoredSets :
                /\ c \in Range(StoredSets[s])
                /\ PccaMembers(s) # <<>>
                /\ \A s2 \in DOMAIN StoredSets :
                      PccaMembers(s2) # <<>> =>
                          ~FracLess(DistanceToSet(s2, c), DistanceToSet(s, c))

(***************************************************************************)
(* Claims about compute_mfpt, compute_mfpr and the cached entries          *)
(***************************************************************************)
\* the assignment key of the last call
LastKey == Key(last.ref, last.n)

\* the last call was a compute_mfpr that returned (computed or cached)
MfprReturned == last.op = "compute_mfpr" /\ last.ret \in {"ok", "cached"}

\* the last call was a compute_mfpt that returned (computed or cached)
MfptReturned == last.op = "compute_mfpt" /\ last.ret \in {"ok", "cached"}

\* C8: after compute_mfpr returns for an assignment key, mfpr holds under that
\* key exactly the pairs mfpt holds under it, and for each pair the rate is
\* 1 / (mfpt mean), the rate error is rate * (mfpt std / mfpt mean) and the
\* unit label is the same.
C8_RatesFollowPassageTimes ==
    MfprReturned =>
        /\ LastKey \in DOMAIN mfpr[last.t]
        /\ LastKey \in DOMAIN mfpt[last.t]
        /\ DOMAIN mfpr[last.t][LastKey] = DOMAIN mfpt[last.t][LastKey]
        /\ \A pair \in DOMAIN mfpr[last.t][LastKey] :
            LET r == mfpr[last.t][LastKey][pair]
                p == mfpt[last.t][LastKey][pair]
            IN  /\ FracEq(r.rate, <<1, p.mean>>)
                /\ FracEq(r.error, FracMul(r.rate, <<p.std, p.mean>>))
                /\ r.unit = p.unit

\* C9: after a compute_mfpt with n macrostates that returns without raising,
\* the entry under the assignment key holds exactly the n*(n-1) ordered pairs
\* (i, j) with i # j, keyed 1-based, and no pair with i = j.
C9_AllTransitionsNoSelfPairs ==
    MfptReturned =>
        /\ LastKey \in DOMAIN mfpt[last.t]
        /\ DOMAIN mfpt[last.t][LastKey] =
              {<<i, j>> : i \in 1..last.n, j \in 1..last.n} \ {<<i, i>> : i \in 1..last.n}
        /\ Cardinality(DOMAIN mfpt[last.t][LastKey]) = last.n * (last.n - 1)

\* the entry the arguments of call c give when it computes to the end, for
\* the state the call leaves
FreshAssignments(c, dist, partition) ==
    [i \in 1..c.n |-> Assignment(dist[c.t], partition[c.ref][c.n][i], c.w)]

FreshPassageTimes(c) ==
    [pair \in Transitions(c.n) |-> PassageTime(c.sample, c.n, pair, Timestep(c.step))]

FreshRates(c) == [pair \in Transitions(c.n) |-> Rate(FreshPassageTimes(c)[pair])]

\* one call of op on a store (metastable_assignments, mfpt or mfpr): with an
\* entry under the key and overwrite False the entry is the same afterwards
\* and the call returns it as cached; with overwrite True a call that
\* returns has stored the entry its own arguments give
CachedStep(op, before, after, fresh, call) ==
    call.op = op =>
        /\ (Key(call.ref, call.n) \in DOMAIN before[call.t] /\ ~call.ow) =>
              /\ call.ret = "cached"
              /\ Key(call.ref, call.n) \in DOMAIN after[call.t]
              /\ after[call.t][Key(call.ref, call.n)] = before[call.t][Key(call.ref, call.n)]
        /\ (call.ow /\ call.ret = "ok") =>
              after[call.t][Key(call.ref, call.n)] = fresh

\* C10: for assign_to_metastable, compute_mfpt and compute_mfpr, a call made
\* when an entry exists under the assignment key (reference title, n_states)
\* with overwrite False leaves the entry unchanged, whatever its weights or
\* timestep; a call with overwrite True recomputes the entry.
C10_CachedUnlessOverwrite ==
    [][/\ CachedStep("assign_to_metastable", metastable_assignments,
                     metastable_assignments',
                     FreshAssignments(last', stationary_distribution', pcca'), last')
       /\ CachedStep("compute_mfpt", mfpt, mfpt', FreshPassageTimes(last'), last')
       /\ CachedStep("compute_mfpr", mfpr, mfpr', FreshRates(last'), last')]_vars

\* a compute_mfpt with overwrite False returned the cached entry although
\* its timestep gives other passage times than the cached ones
C10_Witness ==
    /\ last.op = "compute_mfpt" /\ last.ret = "cached" /\ ~last.ow
    /\ mfpt[last.t][LastKey] # << >>
    /\ \A pair \in DOMAIN mfpt[last.t][LastKey] :
          mfpt[last.t][LastKey][pair] # FreshPassageTimes(last)[pair]

(***************************************************************************)
(* Claims about bootstrapping                                              *)
(***************************************************************************)
\* the assignment key of the latest bootstrapping call
BootKey == Key(boot.ref, boot.n)

\* the probability rows accumulated under that key
BootRows == bootstrapping_data[boot.t][BootKey].probabilities

\* the latest bootstrapping call has returned
BootReturned ==
    /\ last.op \in {"bootstrapping", "collection.bootstrapping"}
    /\ last.ret = "ok"
    /\ boot.pc = "idle"

\* the convergence test on the first m accumulated rows was true
ConvergedAt(m) ==
    BootstrappingConvergence(SubSeq(BootRows, 1, m), DefaultTol, boot.last) = "True"

ConstructionFailed == boot.pc = "loop" /\ boot'.failed = boot.failed + 1

\* C12: an iteration whose bootstrapped MSM fails to build adds no probability
\* row and no record of resampled trajectory indices and leaves the counter
\* unchanged; whenever the loop test is about to be evaluated in a run on an
\* already populated or fresh key, the counter is the number of rows plus one
\* and there is one index record per row.
C12_FailedAttemptLeavesNoTrace ==
    [][/\ ConstructionFailed =>
            /\ bootstrapping_data' = bootstrapping_data
            /\ boot'.i = boot.i
       /\ boot'.pc = "loop" =>
            LET acc == bootstrapping_data'[boot'.t][Key(boot'.ref, boot'.n)]
            IN  /\ boot'.i = Len(acc.probabilities) + 1
                /\ Len(acc.trajectories) = Len(acc.probabilities)]_vars

\* a construction failed in a run that already holds a row
C12_Witness ==
    /\ boot.pc = "loop" /\ boot.failed > 0 /\ ~boot.built
    /\ Len(BootRows) > 0

\* construction attempts made so far by the running call: appended rows plus
\* failed constructions
Attempts == (boot.i - 1 - boot.rows0) + boot.failed

\* C13: a bootstrapping call makes at most max_iterations construction
\* attempts (min_iterations if that is larger), failed ones included, so that
\* it terminates even when constructions keep failing.
C13_AttemptsBounded ==
    boot.pc = "loop" => Attempts <= MaxOf({boot.max_iter, boot.min_iter})

\* a Gaussian fit fails for one of the last lst cumulative windows of a column
SomeFitFails(rows, n, lst) ==
    \E c \in 1..n, k \in 1..lst : FitRaises(c, WindowLengths(rows, lst)[k])

\* C14: on the probability rows that a bootstrapping call finds accumulated
\* under an assignment key (the rows held between calls),
\* bootstrapping_convergence returns True only if every macrostate column
\* passes over the last `last` cumulative windows, and returns False, without
\* raising, when a window's fit fails for a column or fewer than `last` rows
\* exist.
C14_ConvergenceNeverRaises ==
    boot.pc = "idle" =>
    \A t \in Titles : \A key \in DOMAIN bootstrapping_data[t] : \A lst \in Lasts :
        LET rows == bootstrapping_data[t][key].probabilities
            r == BootstrappingConvergence(rows, DefaultTol, lst)
        IN  /\ r \in {"True", "False"}
            /\ r = "True" =>
                 /\ Len(rows) >= lst
                 /\ \A c \in 1..key[2] : ColumnConverged(rows, c, DefaultTol, lst)
            /\ (Len(rows) < lst \/ SomeFitFails(rows, key[2], lst)) => r = "False"

\* the value reported for the key of the latest bootstrapping call
BootReported == metastable_assignments_bootstrapped[boot.t][BootKey]

\* C15: when a bootstrapping call returns, the value reported for every
\* macrostate under the assignment key (mean, standard deviation, iteration
\* count) is that of all probability rows accumulated under the key, also
\* when the call ran with overwrite=False on top of an earlier run and added
\* rows.
C15_ReportedMatchesRows ==
    BootReturned => BootReported = Reported(BootRows, boot.n, Len(BootRows))

\* C16: a bootstrapping call that repeats, with overwrite=False, the
\* parameters of a call that returned converged for the key does no
\* resampling (the loop test is false at once and the accumulated rows stay as
\* they are) and returns the reported value that was cached.
C16_ConvergedRunIsRepeatable ==
    [][(boot.again /\ boot.pc = "loop") =>
          /\ ~LoopRuns(boot)
          /\ bootstrapping_data' = bootstrapping_data
          /\ metastable_assignments_bootstrapped' = metastable_assignments_bootstrapped
          /\ last'.ret = "ok"]_vars

\* a repeated call on a converged key has returned
C16_Witness == BootReturned /\ boot.again /\ Len(BootRows) = boot.rows0

\* a call of MSMCollection.bootstrapping enters the loop of its target
CollectionStarts ==
    boot.pc = "idle" /\ boot'.pc = "loop" /\ last'.op = "collection.bootstrapping"

\* a call of MSMCollection.bootstrapping returns
CollectionReturns ==
    boot.pc = "loop" /\ last.op = "collection.bootstrapping" /\ last'.ret = "ok"

\* C17: MSMCollection.bootstrapping with overwrite=True discards the
\* probability rows and the reported values accumulated under the assignment
\* key of the target and recomputes them from zero rows; with overwrite=False
\* the existing rows are kept.
C17_CollectionOverwriteRestarts ==
    [][/\ CollectionStarts =>
            LET t == boot'.t
                key == Key(boot'.ref, boot'.n)
            IN  IF last'.ow
                THEN bootstrapping_data'[t][key] = NoRows
                ELSE key \in DOMAIN bootstrapping_data[t] =>
                        bootstrapping_data'[t][key] = bootstrapping_data[t][key]
       /\ (CollectionReturns /\ last.ow) =>
            metastable_assignments_bootstrapped'[boot.t][BootKey]
                = Reported(BootRows, boot.n, Len(BootRows))]_vars

(***************************************************************************)
(* Claims about compare_states_and_timescales                              *)
(***************************************************************************)
\* the latest call compared MSM T on the partition of another MSM R, and the
\* rates of every transition between R's macrostates are stored on T
ComparedOnReference ==
    /\ last.op = "compare_states_and_timescales"
    /\ last.t # last.ref
    /\ LastKey \in DOMAIN mfpr[last.t]
    /\ DOMAIN mfpr[last.t][LastKey] = Transitions(last.n)

\* C18: compare_states_and_timescales(n, msm=R) on an MSM T other than R
\* works on R's partition: the probabilities of T's macrostates are stored on
\* T under the key (R.title, n) and the call returns one pair of ratios for
\* every unordered pair of macrostates, with no lookup or type error.
C18_ComparesOnReferencePartition ==
    ComparedOnReference =>
        /\ last.ret = "ok"
        /\ LastKey \in DOMAIN metastable_assignments[last.t]
        /\ DOMAIN ratios = UnorderedPairs(last.n)

(***************************************************************************)
(* Claims about the MSM collection                                         *)
(***************************************************************************)
\* the saved collection has just been loaded into a new collection
Loaded == last.op = "load" /\ last.ret = "ok"

\* C19: saving a collection and loading the file into a new collection gives
\* a collection with the same titles, each title mapped to the MSM saved
\* under it with all its attributes (cached pcca, assignments, mfpt,
\* bootstrap data included), and the same shared clusters: what load does is
\* add_msm for every saved MSM and setting clusters.
C19_LoadRestoresSaved ==
    Loaded =>
        /\ DOMAIN loaded.MSMs = DOMAIN MSMs
        /\ \A k \in DOMAIN loaded.MSMs :
              /\ loaded.MSMs[k] = Snapshot(MSMs[k])
              /\ loaded.MSMs[k] = file.MSMs[k]
              /\ loaded.MSMs[k].title = k
        /\ loaded.clusters = clusters
        /\ loaded.clusters = file.clusters

\* a clustered collection of two MSMs, one with cached macrostates and
\* probabilities, has been saved and loaded
C19_Witness ==
    /\ Loaded
    /\ DOMAIN MSMs = Titles
    /\ clusters # <<>>
    /\ DOMAIN pcca["a"] # {}
    /\ DOMAIN metastable_assignments["a"] # {}

\* the call has a configuration error: titles and locations of different
\* lengths, a `disconnected` list whose length is not the number of reference
\* MSMs, or labels whose number is not n_states
Misconfigured(call) ==
    \/ call.op = "collection.load_data" /\ Len(call.args[1]) # Len(call.args[2])
    \/ call.op = "collection.pcca_assignments" /\ Len(call.args[2]) # 1
    \/ /\ call.op \in {"add_state_labels", "collection.add_state_labels"}
       /\ Len(call.args[1]) # call.n

\* C20: a call of MSMCollection.load_data, pcca_assignments or
\* add_state_labels with a configuration error raises before it changes
\* anything: no MSM is created, no data loaded, no PCCA computed and no label
\* stored.
C20_ConfigurationErrorsChangeNothing ==
    [][Misconfigured(last') =>
          /\ last'.ret = "raised"
          /\ UNCHANGED <<msmVars, MSMs, clusters, file, loaded, ratios, boot, unfit, loadVars>>]_vars

\* load_data was called with more locations than titles, for a title that
\* was not in the collection, and raised
C20_Witness ==
    /\ Misconfigured(last)
    /\ last.op = "collection.load_data"
    /\ last.ret = "raised"
    /\ \E i \in DOMAIN last.args[1] : last.args[1][i] \notin DOMAIN MSMs

(***************************************************************************)
(* Claims about load_data                                                  *)
(***************************************************************************)
\* the arguments of the latest MSM.load_data
LoadLocations == last.args[1]

LoadFound == last.args[3]

LoadMissing == last.args[4]

\* the snapshot folders of the latest load, location by location and index
\* by index within a location
LoadOrder == Snapshots(LoadLocations, last.args[2])

\* the positions in that order of the folders that lack a feature file
Incomplete == {k \in DOMAIN LoadOrder : LoadOrder[k] \notin LoadFound}

\* the folders the matrices of self.data were read from, in list order
LoadedFrom(t) == [k \in DOMAIN trajectory_data[t] |-> trajectory_data[t][k].snapshot]

\* the folders of the order up to position `upto`, with or without their
\* feature files
Among(upto, complete) ==
    SelectSeq(SubSeq(LoadOrder, 1, upto),
              LAMBDA snap : (snap \in LoadFound) <=> complete)

\* C21: MSM.load_data applies the missing-data policy per trajectory: with
\* "error" it raises at the first trajectory, in location-then-index order,
\* that lacks a feature file and loads nothing after it; with "warn" and
\* "ignore" it skips exactly the trajectories with missing files and loads
\* every complete one in location-then-index order, "warn" reporting each
\* skipped trajectory and "ignore" reporting none.
C21_MissingPolicyPerTrajectory ==
    last.op = "load_data" =>
        /\ (LoadMissing = "error" /\ Incomplete # {}) =>
              /\ last.ret = "raised"
              /\ LoadedFrom(last.t) = SubSeq(LoadOrder, 1, MinOf(Incomplete) - 1)
        /\ (LoadMissing # "error" \/ Incomplete = {}) =>
              /\ last.ret = "ok"
              /\ LoadedFrom(last.t) = Among(Len(LoadOrder), TRUE)
        /\ missing_idx = IF LoadMissing = "warn" THEN Among(Len(LoadOrder), FALSE) ELSE <<>>
        /\ data[last.t] = Len(trajectory_data[last.t])

\* a load with "warn" skipped a trajectory of the first location and loaded
\* one of the second; a load with "error" raised after loading a trajectory
C21_Witness ==
    /\ last.op = "load_data"
    /\ \/ /\ LoadMissing = "warn"
          /\ \E i, j \in DOMAIN LoadOrder :
                /\ i < j /\ i \in Incomplete /\ j \notin Incomplete
                /\ LoadOrder[i][1] # LoadOrder[j][1]
       \/ /\ LoadMissing = "error" /\ last.ret = "raised"
          /\ trajectory_data[last.t] # <<>>

(***************************************************************************)
(* Claims about the errors of run_pcca                                     *)
(***************************************************************************)
\* the latest call was a run_pcca with an integer `disconnected` that is no
\* index 0..n_states-1
OutOfRangeRun ==
    /\ last.op = "run_pcca"
    /\ last.disc # <<>>
    /\ last.disc[1] \notin 0..(last.n - 1)

\* C22: run_pcca(n_states, disconnected) with a `disconnected` index outside
\* 0..n_states-1, negative indices included, raises an error to the caller,
\* assigns the disconnected microstates to no macrostate and leaves
\* pcca[n_states] as it was before the call (here: absent, the call being the
\* first run_pcca on the MSM).
C22_OutOfRangeIndexRaises ==
    OutOfRangeRun =>
        /\ last.ret = "raised"
        /\ last.n \notin DOMAIN pcca[last.t]

(***************************************************************************)
(* Claims about assign_to_metastable                                       *)
(***************************************************************************)
\* the latest call was an assign_to_metastable that computed and returned
AssignedNow == last.op = "assign_to_metastable" /\ last.ret = "ok"

\* the macrostates of the reference MSM of the latest call
ReferenceSets == pcca[last.ref][last.n]

\* the entry the latest call stored
AssignedEntry == metastable_assignments[last.t][LastKey]

\* C23: assign_to_metastable for a target T with reference R stores under
\* the key (R.title, n_states) exactly one entry per macrostate of R's
\* partition, keyed 1..n_states; the count of an entry is the number of
\* member microstates of the macrostate, its probability is 100 times the
\* weighted sum of T's stationary distribution over the members, and an
\* empty macrostate reports (0, 0, 0).
C23_OneEntryPerMacrostate ==
    AssignedNow =>
        /\ LastKey \in DOMAIN metastable_assignments[last.t]
        /\ DOMAIN AssignedEntry = 1..last.n
        /\ DOMAIN ReferenceSets = 1..last.n
        /\ \A i \in 1..last.n :
              IF ReferenceSets[i] = <<>>
              THEN AssignedEntry[i] = <<0, 0, 0>>
              ELSE /\ AssignedEntry[i][3] = Len(ReferenceSets[i])
                   /\ AssignedEntry[i][1] =
                         100 * SumSeq([k \in DOMAIN ReferenceSets[i] |->
                                         stationary_distribution[last.t][ReferenceSets[i][k] + 1]
                                            * last.w])

\* an MSM was assigned, with weights other than 1, to the macrostates of
\* another MSM, one of them empty and one with several members
C23_Witness ==
    /\ AssignedNow
    /\ last.t # last.ref
    /\ last.w # 1
    /\ \E i, j \in 1..last.n : ReferenceSets[i] = <<>> /\ Len(ReferenceSets[j]) > 1

(***************************************************************************)
(* Claims about the partition and the cached kinetics                      *)
(***************************************************************************)
\* the step is a compute_mfpt call for a reference MSM that holds a
\* partition for the n_states of the call
MfptOnCachedPartition ==
    /\ last'.op = "compute_mfpt"
    /\ last'.n \in DOMAIN pcca[last'.ref]

\* C24: compute_mfpt leaves the reference MSM's cached partition
\* pcca[n_states] unchanged: the exclusion of the microstates outside the
\* active set and the conversion to active-set-local indices touch only the
\* sets handed to the sampler, so that after the call pcca[n_states] holds the
\* original microstate indices, the disconnected ones included.
C24_MfptKeepsPartition ==
    [][MfptOnCachedPartition =>
          /\ last'.n \in DOMAIN pcca'[last'.ref]
          /\ pcca'[last'.ref][last'.n] = pcca[last'.ref][last'.n]]_vars

\* the latest call was a compute_mfpt or a compute_mfpr that raised
KineticsRaised == last.op \in {"compute_mfpt", "compute_mfpr"} /\ last.ret = "raised"

\* the store holds nothing under the key of the latest call, or an entry
\* with every transition between the macrostates
NothingOrComplete(store) ==
    LastKey \in DOMAIN store[last.t] => DOMAIN store[last.t][LastKey] = Transitions(last.n)

\* C25: when compute_mfpt or compute_mfpr raises partway through (the
\* sampling fails for a macrostate, the receiver has no estimator), no empty
\* or partial entry is left cached under the assignment key, so that a later
\* call with overwrite=False computes instead of returning the partial entry.
C25_RaisedCallLeavesNoPartialEntry ==
    KineticsRaised => NothingOrComplete(mfpt) /\ NothingOrComplete(mfpr)

\* the rates stored under `key` on MSM t are those of the passage times
\* stored under it
RatesMatch(t, key) ==
    /\ DOMAIN mfpr[t][key] = DOMAIN mfpt[t][key]
    /\ \A pair \in DOMAIN mfpr[t][key] :
          FracEq(mfpr[t][key][pair].rate, <<1, mfpt[t][key][pair].mean>>)

\* C26: in every reachable state in which an MSM holds both mfpt[key] and
\* mfpr[key] for an assignment key, the two have the same pairs and every
\* stored rate is 1 divided by the stored passage time, also after a
\* compute_mfpt(overwrite=True) that follows a compute_mfpr.
C26_RatesAlwaysMatchPassageTimes ==
    \A t \in Titles :
        \A key \in DOMAIN mfpt[t] \cap DOMAIN mfpr[t] : RatesMatch(t, key)

\* the `disconnected` an operation hands to run_pcca when the reference MSM
\* has no partition yet: assign_to_metastable its own default 0 (lines
\* 1341 and 1382), compute_mfpt nothing, i.e. None (line 1534)
ImplicitPolicy(op) == IF op = "assign_to_metastable" THEN <<0>> ELSE <<>>

\* the step is an assign_to_metastable with its default arguments or a
\* compute_mfpt that creates the partition of the reference MSM
CreatesPartition ==
    /\ last'.op \in {"assign_to_metastable", "compute_mfpt"}
    /\ last'.disc = ImplicitPolicy(last'.op)
    /\ last'.n \notin DOMAIN pcca[last'.ref]
    /\ last'.n \in DOMAIN pcca'[last'.ref]

\* C27: when the reference MSM has no pcca[n_states] yet, the partition
\* created implicitly is the same whichever operation creates it:
\* assign_to_metastable with its default arguments and compute_mfpt run PCCA
\* with the same policy for the disconnected microstates, so that for every
\* PCCA outcome the stored partition is the same under both.
C27_ImplicitPartitionSamePolicy ==
    [][CreatesPartition =>
          \A memb \in PccaOutcomes(msm[last'.ref], last'.n) :
              StoredPcca(msm[last'.ref], cluster_centers[last'.ref], memb, last'.n,
                         ImplicitPolicy("assign_to_metastable"))
                = StoredPcca(msm[last'.ref], cluster_centers[last'.ref], memb, last'.n,
                             ImplicitPolicy("compute_mfpt"))]_vars

(***************************************************************************)
(* Claims about the bootstrapping data                                     *)
(***************************************************************************)
\* C28: in every reachable state of bootstrapping_data[key] the number of
\* recorded resample-index lists is the number of accumulated probability
\* rows; every recorded list has exactly R indices, R the number of
\* trajectory replicates, each in 0..R-1 (drawn with replacement, so that an
\* index may repeat); every probability row has one entry per macrostate of
\* the reference partition.
C28_BootstrappingDataShape ==
    \A t \in Titles : \A key \in DOMAIN bootstrapping_data[t] :
        LET acc == bootstrapping_data[t][key] IN
        /\ Len(acc.trajectories) = Len(acc.probabilities)
        /\ \A r \in DOMAIN acc.trajectories :
              /\ Len(acc.trajectories[r]) = data[t]
              /\ \A k \in DOMAIN acc.trajectories[r] :
                    acc.trajectories[r][k] \in 0..(data[t] - 1)
        /\ \A r \in DOMAIN acc.probabilities : Len(acc.probabilities[r]) = key[2]

\* a call returned with two rows, one of them from a resample that drew a
\* trajectory twice
C28_Witness ==
    /\ BootReturned
    /\ Len(BootRows) >= 2
    /\ \E r \in DOMAIN bootstrapping_data[boot.t][BootKey].trajectories :
          LET idxs == bootstrapping_data[boot.t][BootKey].trajectories[r]
          IN  \E j, k \in DOMAIN idxs : j # k /\ idxs[j] = idxs[k]

(***************************************************************************)
(* Claims about MSMCollection.assign_to_clusters                           *)
(***************************************************************************)
\* the MSMs named by the `titles` argument of the latest call
Named(arg) ==
    IF arg.kind = "none" THEN DOMAIN MSMs
    ELSE IF arg.kind = "str" THEN {arg.title}
    ELSE Range(arg.list)

\* the step is an assign_to_clusters(titles, clusters=None) on a clustered
\* collection in which every MSM named by `titles` is a member with data
AssignsNamed ==
    /\ last'.op = "collection.assign_to_clusters"
    /\ last'.args[2] = <<>>
    /\ clusters # <<>>
    /\ \A t \in Named(last'.args[1]) : t \in DOMAIN MSMs /\ data[t] > 0

\* C29: MSMCollection.assign_to_clusters(titles=T, clusters=None) sets the
\* cluster_centers of exactly the member MSMs named by T (a title as a str,
\* a list of titles, all members for None) to the shared centers of the
\* collection and recomputes their discrete trajectories; it leaves the
\* cluster_centers and the discrete trajectories of every other MSM as they
\* were.
C29_AssignsExactlyNamed ==
    [][AssignsNamed =>
          /\ last'.ret = "ok"
          /\ \A t \in Titles :
                IF t \in Named(last'.args[1])
                THEN /\ cluster_centers'[t] = clusters
                     /\ dtrajs'[t] \in AssignOutcomes(clusters)
                ELSE /\ cluster_centers'[t] = cluster_centers[t]
                     /\ dtrajs'[t] = dtrajs[t]]_vars

(***************************************************************************)
(* Claims about MSMCollection.load_data on an existing title               *)
(***************************************************************************)
\* the step is a load_data of the collection whose first title is already a
\* member and whose titles and locations have the same length
LoadsExisting ==
    /\ last'.op = "collection.load_data"
    /\ LengthsMatch(last'.args[1], last'.args[2])
    /\ last'.args[1][1] \in DOMAIN MSMs

\* what a first load with the arguments of the latest call gives for its
\* first title
FirstLoad(call) ==
    LoadedData(NoData, call.args[2][1], FileNames, PyList(call.args[3]), Frames,
               call.args[4], call.args[5])

\* the recorded locations of MSM t are one per feature matrix, in order
Aligned(matrices, locs) ==
    /\ Len(locs) = Len(matrices)
    /\ \A j \in DOMAIN matrices : matrices[j].snapshot = locs[j]

\* C30: MSMCollection.load_data on a title that is already in the
\* collection leaves the feature data of that MSM unchanged with
\* reload=False; with reload=True it loads the data again from the given
\* location with file_names, trajectories and frames each in the role they
\* have in a first load, and the recorded trajectory locations stay one per
\* loaded feature matrix.
C30_ReloadLoadsAgain ==
    [][LoadsExisting =>
          LET t == last'.args[1][1]
          IN  IF ~last'.ow
              THEN trajectory_data'[t] = trajectory_data[t]
              ELSE /\ last'.ret = FirstLoad(last').ret
                   /\ trajectory_data'[t] = FirstLoad(last').data
                   /\ Aligned(trajectory_data'[t], traj_locations'[t])]_vars
====
